---- MODULE Spec2Model ----
(***************************************************************************)
(* A model of janet-world's streaming engine (WorldService, service.rs):   *)
(* participant registry, per-tick reconciliation of active cells against   *)
(* the participants' activation windows, and the terrain bodies the engine *)
(* registers in / unregisters from the physics backend.                    *)
(*                                                                         *)
(* The physics backend (janet_operations::PhysicsRegistry) is an external  *)
(* collaborator.  It is modelled by what the engine can observe of it: the *)
(* default simulation may be present or absent, every register_body /      *)
(* unregister_body call returns Ok or Err, and get_transform returns a     *)
(* transform for some ids.  sim_bodies is the ledger of the engine's own   *)
(* calls: bodies registered with Ok and not yet unregistered with Ok.      *)
(*                                                                         *)
(* Floating point coordinates are modelled by integers; the saturating     *)
(* float-to-i32 cast and i32 overflow of cx + dx are outside the modelled  *)
(* range of positions.                                                     *)
(***************************************************************************)
EXTENDS Integers, Sequences, FiniteSets, Bags, TLC

\* ------------------------------------------------------------------------
\* Bounds of the model
\* ------------------------------------------------------------------------

\* tick() is called at most MaxTicks times (caps tick_count).
MaxTicks == 3

\* At most MaxFaults physics calls (register_body / unregister_body) return Err.
MaxFaults == 1

\* ------------------------------------------------------------------------
\* Input domains
\* ------------------------------------------------------------------------

ParticipantIds == {"alice", "bob"}

\* config.cell_size and config.activation_radius are drawn from these sets
\* at construction.
CellSizes == {2}
ActivationRadii == {0, 1}

Vec3(x, y, z) == [x |-> x, y |-> y, z |-> z]

\* Positions a join / teleport command may carry.
Positions == {Vec3(0, 0, 0), Vec3(-3, 1, 7)}

\* The positions the commands for one id carry: alice joins and teleports,
\* bob joins at one place.
CommandPositions(id) == IF id = "bob" THEN {Vec3(-3, 1, 7)} ELSE Positions

\* The ids the physics simulation may hold a dynamic body for, and the
\* positions (x, y) it may report for one.
TransformIds == {"alice"}
TransformPositions == {<<5, -1>>}

CellCoord(x, y, z) == [x |-> x, y |-> y, z |-> z]

VARIABLES
    config,                 \* WorldServiceConfig: cell_size, activation_radius
    world_terrain,          \* "heightmap" when world.terrain downcasts to HeightmapTerrain
    active_cells,           \* HashSet<CellCoord>
    terrain_bodies,         \* HashMap<CellCoord, String>
    cell_objects,           \* HashMap<CellCoord, Vec<String>>
    participant_positions,  \* HashMap<String, Vec3>
    tick_count,             \* u64
    sim_present,            \* the registry has a default simulation
    sim_transforms,         \* id -> (x, y) for the ids get_transform answers
    sim_bodies,             \* bag of body ids registered (Ok) and not unregistered (Ok)
    faults,                 \* number of physics calls that returned Err so far
    tick_calls,             \* number of tick() calls made so far
    last_op,                \* per participant id: its most recent register/unregister
    retry,                  \* the cell the latest tick() failed to activate, and the
                            \* positions it was wanted for; cleared by a successful
                            \* tick() and by register / unregister
    last,                   \* what the most recent operation did and returned
    \* --- WorldBusAgent (bus.rs) ---
    engine_lock,            \* the Mutex around the WorldService is held
    tick_pc,                \* where the tick task is: "timer", "acquire", "locked",
                            \* "publishing"
    pending,                \* events of the current tick not yet handed to publish
    published,              \* every publish call made so far, in order, with its outcome
    publish_faults,         \* number of publish calls that returned Err so far
    handler,                \* the command handler in flight, if any
    response,               \* the CommandResponse returned most recently
    \* --- JanetWorldClient (clients/godot) ---
    mirror_cache,           \* ClientWorldCache
    mirror_handle,          \* the node holds a bridge handle (Some)
    mirror_log,             \* every event applied so far with the signals it emitted
    mirror_kind,            \* which client: "native" (clients/godot) or "browser" (clients/wasm)
    \* --- the client's bridge (bridge.rs of either client) ---
    bridge_pc,              \* where run_bridge / run_bridge_loop stands
    ws_state,               \* browser State: ws_open, ws_closed, subscribed
    incoming,               \* browser State.incoming: raw frames not yet parsed
    event_queue,            \* WorldEvents queued for the mirror (event channel / State.events)
    intent_queue,           \* intents queued for the bridge (intent channel / State.intents)
    wire,                   \* what the bridge handed to the transport, in order
    bridge_calls,           \* bus messages delivered and intents requested so far
    user_disconnected,      \* disconnect_from_world() / disconnect() was called
    \* --- nats_ws (clients/wasm): the text protocol ---
    frame_in,               \* subject, payload and sid handed to the frame builders
    frame_out,              \* the frame built and the operations parsed from its echo
    \* --- HeightmapTerrain ---
    heightmap,              \* HeightmapTerrain: seed, chunk_size, base_resolution
    chunk_cache,            \* the entries of the cache map: key and handle
    chunk_heap,             \* the chunks allocated so far; a handle is a place here
    cache_lock,             \* the threads holding a write guard of the cache
    thread,                 \* per calling thread: its call and its position in it
    terrain_log,            \* history: calls made, evictions, handles and heights returned
    \* --- parse_bus_message / parse_nats_message on their own ---
    bus_message,            \* the subject and payload handed to the parser
    parsed,                 \* which bridge parsed it, and the events it returned
    \* --- the locks of the server: Mutex<WorldService>, RwLock<PhysicsRegistry> ---
    service_mutex,          \* the task holding the MutexGuard of the service, or "none"
    registry_lock,          \* the guards of the physics registry: writer and readers
    task                    \* per task: where it stands and the lock sections ahead

vars == <<config, world_terrain, active_cells, terrain_bodies, cell_objects,
          participant_positions, tick_count, sim_present, sim_transforms,
          sim_bodies, faults, tick_calls, last_op, retry, last,
          engine_lock, tick_pc, pending, published, publish_faults,
          handler, response, mirror_cache, mirror_handle, mirror_log,
          mirror_kind, bridge_pc, ws_state, incoming, event_queue, intent_queue,
          wire,
          bridge_calls, user_disconnected, frame_in, frame_out,
          heightmap, chunk_cache, chunk_heap, cache_lock, thread, terrain_log,
          bus_message, parsed, service_mutex, registry_lock, task>>

engine_vars == <<active_cells, terrain_bodies, cell_objects,
                 participant_positions, tick_count>>

physics_vars == <<sim_present, sim_transforms, sim_bodies, faults>>

bus_vars == <<engine_lock, tick_pc, pending, published, publish_faults,
              handler, response>>

\* Everything the server process holds.
server_vars == <<config, world_terrain, engine_vars, physics_vars, tick_calls,
                 last_op, retry, last, bus_vars>>

mirror_vars == <<mirror_cache, mirror_handle, mirror_log, mirror_kind>>

\* The state of the client processes, which no server step touches.
bridge_vars == <<bridge_pc, ws_state, incoming, event_queue, intent_queue, wire,
                 bridge_calls, user_disconnected>>

client_vars == <<mirror_vars, bridge_vars>>

codec_vars == <<frame_in, frame_out>>

\* The state of the components that are exercised on their own.
terrain_vars == <<heightmap, chunk_cache, chunk_heap, cache_lock, thread,
                  terrain_log>>

parser_vars == <<bus_message, parsed>>

lock_vars == <<service_mutex, registry_lock, task>>

apart_vars == <<codec_vars, terrain_vars, parser_vars, lock_vars>>

\* What the engine on its own (no bus agent around it) never touches.
detached_vars == <<bus_vars, client_vars, apart_vars>>

\* The empty map (HashMap::new()).
EmptyMap == [k \in {} |-> 0]

\* m with key k removed (HashMap::remove).
MapRemove(m, k) == [j \in (DOMAIN m) \ {k} |-> m[j]]

\* m with k set to v (HashMap::insert: insert or overwrite).
MapInsert(m, k, v) == [j \in (DOMAIN m) \cup {k} |-> IF j = k THEN v ELSE m[j]]

\* `retry` when no failed activation is pending.
NoRetry == [cells |-> {}, positions |-> EmptyMap]

\* `last` after any operation other than tick().
Idle == [op |-> "idle", ok |-> TRUE]

\* No command handler is running.
NoCommand == [pc |-> "none"]

\* No command has been answered yet.
NoResponse == [status |-> "none"]

\* ClientWorldCache::new() / Default
EmptyCache ==
    [chunks |-> EmptyMap, structures |-> EmptyMap, entities |-> EmptyMap,
     last_frame |-> 0, in_snapshot |-> FALSE]

\* `frame_in` / `frame_out` when nothing was built or parsed.
NoFrame == [kind |-> "none"]

CodecIdle ==
    /\ frame_in = NoFrame
    /\ frame_out = NoFrame

\* A thread that is in no call of the terrain.
IdleThread ==
    [pc |-> "idle", op |-> "none", cx |-> 0, cy |-> 0, lod |-> 0, x |-> 0,
     y |-> 0, max |-> 0, handle |-> 0]

\* HeightmapTerrain::new as the tests call it (sizes scaled), nobody calling.
TerrainIdle ==
    /\ heightmap = [seed |-> 42, chunk_size |-> 8, base_resolution |-> 4]
    /\ chunk_cache = {}
    /\ chunk_heap = <<>>
    /\ cache_lock = {}
    /\ thread = [t \in {"t1", "t2"} |-> IdleThread]
    /\ terrain_log = [calls |-> 0, evictions |-> 0, returned |-> {},
                      heights |-> {}]

\* The components exercised on their own, untouched.
\* No message was handed to the parser.
ParserIdle ==
    /\ bus_message = [kind |-> "none"]
    /\ parsed = [kind |-> "none"]

\* No task of the server is inside a lock or waiting for one.
IdleTask == [pc |-> "idle", todo |-> <<>>]
LocksIdle ==
    /\ service_mutex = "none"
    /\ registry_lock = [writer |-> "none", readers |-> {}]
    /\ task = [t \in {"tick", "handler", "stepper", "reader"} |-> IdleTask]

ApartIdle ==
    /\ CodecIdle
    /\ TerrainIdle
    /\ ParserIdle
    /\ LocksIdle

\* bridge::spawn has just returned: the bridge task exists and has done
\* nothing, the WebSocket is neither open nor closed, every queue is empty.
BridgeSpawned ==
    /\ bridge_pc = "connecting"
    /\ ws_state = [ws_open |-> FALSE, ws_closed |-> FALSE, subscribed |-> FALSE]
    /\ incoming = <<>>
    /\ event_queue = <<>>
    /\ intent_queue = <<>>
    /\ wire = <<>>
    /\ bridge_calls = [messages |-> 0, intents |-> 0]
    /\ user_disconnected = FALSE

\* A client node that has connected and applied nothing yet.
ClientNotStarted ==
    /\ BridgeSpawned
    /\ mirror_cache = EmptyCache
    /\ mirror_handle = TRUE
    /\ mirror_log = <<>>
    /\ mirror_kind = "native"

\* The bus agent before run(): no task exists, nothing was published.
AgentNotStarted ==
    /\ engine_lock = FALSE
    /\ tick_pc = "timer"
    /\ pending = <<>>
    /\ published = <<>>
    /\ publish_faults = 0
    /\ handler = NoCommand
    /\ response = NoResponse

\* ------------------------------------------------------------------------
\* Construction
\* ------------------------------------------------------------------------

\* WorldService::new: empty collections, tick_count = 0.  The registry is
\* handed in by the caller, with (bin/world.rs) or without (tests) a
\* default simulation.
Init ==
    /\ config \in [cell_size : CellSizes, activation_radius : ActivationRadii]
    /\ world_terrain \in {"heightmap", "other"}
    /\ active_cells = {}
    /\ terrain_bodies = EmptyMap
    /\ cell_objects = EmptyMap
    /\ participant_positions = EmptyMap
    /\ tick_count = 0
    /\ sim_present \in BOOLEAN
    /\ sim_transforms = EmptyMap
    /\ sim_bodies = EmptyBag
    /\ faults = 0
    /\ tick_calls = 0
    /\ last_op = [id \in ParticipantIds |-> "none"]
    /\ retry = NoRetry
    /\ last = Idle
    /\ AgentNotStarted
    /\ ClientNotStarted
    /\ ApartIdle

\* ------------------------------------------------------------------------
\* Participant management
\* ------------------------------------------------------------------------

\* Variant: only a position that is already cached is overwritten.
RegisterInsertKnownOnly(pp, id, position) ==
    IF id \in DOMAIN pp THEN MapInsert(pp, id, position) ELSE pp

\* register_participant: insert or overwrite.
RegisterInsert(pp, id, position) == MapInsert(pp, id, position)

\* unregister_participant: remove from the positions map.
UnregisterRemove(pp, id) == MapRemove(pp, id)

\* participant_count()
participant_count == Cardinality(DOMAIN participant_positions)

\* stats(); world_objects is never written, so total_objects stays 0.
stats ==
    [active_cells |-> Cardinality(active_cells),
     total_objects |-> 0,
     tracked_participants |-> Cardinality(DOMAIN participant_positions),
     total_ticks |-> tick_count]

RegisterParticipant(id, position) ==
    /\ participant_positions' = RegisterInsert(participant_positions, id, position)
    /\ last_op' = [last_op EXCEPT ![id] = "register"]
    /\ retry' = NoRetry
    /\ last' = Idle
    /\ UNCHANGED <<config, world_terrain, active_cells, terrain_bodies,
                   cell_objects, tick_count, physics_vars, tick_calls>>

\* Variant: when the last participant leaves, the active cells are dropped
\* at once.
UnregisterParticipantEagerly(id) ==
    /\ participant_positions' = UnregisterRemove(participant_positions, id)
    /\ active_cells' = IF DOMAIN participant_positions \subseteq {id}
                       THEN {} ELSE active_cells
    /\ last_op' = [last_op EXCEPT ![id] = "unregister"]
    /\ retry' = NoRetry
    /\ last' = Idle
    /\ UNCHANGED <<config, world_terrain, terrain_bodies,
                   cell_objects, tick_count, physics_vars, tick_calls>>

UnregisterParticipant(id) ==
    /\ participant_positions' = UnregisterRemove(participant_positions, id)
    /\ last_op' = [last_op EXCEPT ![id] = "unregister"]
    /\ retry' = NoRetry
    /\ last' = Idle
    /\ UNCHANGED <<config, world_terrain, active_cells, terrain_bodies,
                   cell_objects, tick_count, physics_vars, tick_calls>>

\* ------------------------------------------------------------------------
\* Physics backend (external): what the environment may do between calls
\* ------------------------------------------------------------------------

\* Another holder of the registry installs a default simulation
\* (set_default_simulation, as bin/world.rs does before start).
SetDefaultSimulation ==
    /\ ~sim_present
    /\ sim_present' = TRUE
    /\ last' = Idle
    /\ UNCHANGED <<config, world_terrain, engine_vars, sim_transforms,
                   sim_bodies, faults, tick_calls, last_op, retry>>

\* The registry loses its default simulation: default_simulation_mut()
\* answers None from now on.
ClearDefaultSimulation ==
    /\ sim_present
    /\ sim_present' = FALSE
    /\ last' = Idle
    /\ UNCHANGED <<config, world_terrain, engine_vars, sim_transforms,
                   sim_bodies, faults, tick_calls, last_op, retry>>

\* The simulation gains or moves a dynamic body named id: get_transform(id)
\* answers Ok with position t.
SetTransform(id, t) ==
    /\ sim_transforms' = MapInsert(sim_transforms, id, t)
    /\ last' = Idle
    /\ UNCHANGED <<config, world_terrain, engine_vars, sim_present,
                   sim_bodies, faults, tick_calls, last_op, retry>>

\* ------------------------------------------------------------------------
\* Cell computation
\* ------------------------------------------------------------------------

\* Variant: the cast without floor() truncates toward zero.
CellOfTruncating(p, cell_size) ==
    IF p >= 0 THEN p \div cell_size ELSE 0 - ((0 - p) \div cell_size)

\* (pos / cell_size).floor() as i32
CellOf(p, cell_size) == p \div cell_size

\* The cells (cx+dx, cy+dy, 0) for dx, dy in -r..=r.
Window(cx, cy, r) ==
    {CellCoord(cx + dx, cy + dy, 0) : dx \in (0 - r)..r, dy \in (0 - r)..r}

\* compute_active_cells: union of the windows of all participants.
ComputeActiveCells(pp, cfg) ==
    UNION {Window(CellOf(pp[id].x, cfg.cell_size), CellOf(pp[id].y, cfg.cell_size),
                  cfg.activation_radius) : id \in DOMAIN pp}

\* Variant: the loop runs over the simulation's bodies instead of the known
\* participant ids.
SyncPositionsOfAllBodies(pp, present, transforms) ==
    IF ~present THEN pp
    ELSE [id \in (DOMAIN pp) \cup (DOMAIN transforms) |->
            IF id \in DOMAIN transforms
            THEN Vec3(transforms[id][1], transforms[id][2], 0)
            ELSE pp[id]]

\* Variant: the overwrite keeps the cached z.
SyncPositionsKeepingZ(pp, present, transforms) ==
    IF ~present THEN pp
    ELSE [id \in DOMAIN pp |->
            IF id \in DOMAIN transforms
            THEN Vec3(transforms[id][1], transforms[id][2], pp[id].z)
            ELSE pp[id]]

\* sync_positions_from_registry: with a default simulation, every known id
\* whose get_transform succeeds is overwritten with (px, py, 0).
SyncPositions(pp, present, transforms) ==
    IF ~present THEN pp
    ELSE [id \in DOMAIN pp |->
            IF id \in DOMAIN transforms
            THEN Vec3(transforms[id][1], transforms[id][2], 0)
            ELSE pp[id]]

\* ------------------------------------------------------------------------
\* Identifiers and protocol events
\* ------------------------------------------------------------------------

\* format!("terrain.{}.{}", coord.x, coord.y)
BodyId(coord) == "terrain." \o ToString(coord.x) \o "." \o ToString(coord.y)

\* format!("{}:{}", coord.x, coord.y)
ChunkId(coord) == ToString(coord.x) \o ":" \o ToString(coord.y)

\* HeightmapTerrain::new(42, 64.0, 16) of the service tests.
TerrainSeed == 42
TerrainChunkSize == 64

\* (seed, chunk_size) of the terrain, or (0, cell_size) without a heightmap.
SeedAndChunkSize(terrain, cfg) ==
    IF terrain = "heightmap" THEN <<TerrainSeed, TerrainChunkSize>>
    ELSE <<0, cfg.cell_size>>

ChunkActivated(coord, terrain, cfg) ==
    [chunk_id |-> ChunkId(coord), cx |-> coord.x, cy |-> coord.y,
     seed |-> SeedAndChunkSize(terrain, cfg)[1], lod |-> 0,
     chunk_size |-> SeedAndChunkSize(terrain, cfg)[2]]

ChunkDeactivated(coord) == [chunk_id |-> ChunkId(coord)]

EntityTransform(id, pos) ==
    [entity_id |-> id, x |-> pos.x, y |-> pos.y, z |-> pos.z,
     rotation_y |-> 0, vx |-> 0, vy |-> 0, vz |-> 0, dt |-> 0]

\* A Vec built by pushing item[c] once for every c of DOMAIN item, as a bag.
PushAll(item) ==
    [e \in {item[c] : c \in DOMAIN item}
       |-> Cardinality({c \in DOMAIN item : item[c] = e})]

\* Variant: the transforms carry the positions cached before this tick's sync.
CollectEntityTransformsBeforeSync(pp) ==
    PushAll([id \in DOMAIN pp |-> EntityTransform(id, participant_positions[id])])

\* collect_entity_transforms: one EntityTransform per tracked participant.
CollectEntityTransforms(pp) ==
    PushAll([id \in DOMAIN pp |-> EntityTransform(id, pp[id])])

\* ------------------------------------------------------------------------
\* Iteration over a HashSet: the order is unspecified.  The orders modelled
\* are the lexicographic order of the cells and its reverse.
\* ------------------------------------------------------------------------

IterationOrders == {"ascending", "descending"}

NoCell == CellCoord(0, 0, 1)

Less(a, b) == a.x < b.x \/ (a.x = b.x /\ a.y < b.y)

\* a is visited before b.
Before(a, b, order) == IF order = "ascending" THEN Less(a, b) ELSE Less(b, a)

\* The cells a loop with `?` visits: every cell up to and including the
\* first one whose call fails.
Visited(S, failing, order) ==
    {c \in S : \A f \in failing : ~Before(f, c, order)}

\* The calls of a loop over S that the backend may fail: those for the first
\* and the last cell of S in lexicographic order (with the two iteration
\* orders: a failure at the first or at the last call of the loop).
FailureSites(S) ==
    {c \in S : Cardinality({b \in S : Less(b, c)}) \in {0, Cardinality(S) - 1}}

RECURSIVE KSubsets(_, _)
\* The subsets of S with at most k elements.
KSubsets(S, k) ==
    IF k <= 0 THEN {{}}
    ELSE LET P == KSubsets(S, k - 1) IN P \cup {p \cup {c} : p \in P, c \in S}

\* ------------------------------------------------------------------------
\* Cell activation and deactivation
\* ------------------------------------------------------------------------

\* Variant: the terrain body entry is read (get) but not removed.
DeactivateCellKeepingEntry(coord, bodies, objects, present, unreg_ok) ==
    [result          |-> "ok",
     terrain_removed |-> FALSE,
     objects_removed |-> coord \in DOMAIN objects,
     unregister_called |-> IF present /\ coord \in DOMAIN bodies
                           THEN {bodies[coord]} ELSE {},
     unregistered    |-> IF present /\ unreg_ok /\ coord \in DOMAIN bodies
                           THEN {bodies[coord]} ELSE {},
     active_removed  |-> TRUE,
     event           |-> {ChunkDeactivated(coord)}]

\* Variant: the Err of unregister_body is returned with `?` instead of logged.
DeactivateCellPropagating(coord, bodies, objects, present, unreg_ok) ==
    IF coord \in DOMAIN bodies /\ present /\ ~unreg_ok
    THEN [result          |-> "UnregisterFailed",
          terrain_removed |-> TRUE,
          objects_removed |-> FALSE,
          unregister_called |-> {bodies[coord]},
          unregistered    |-> {},
          active_removed  |-> FALSE,
          event           |-> {}]
    ELSE [result          |-> "ok",
          terrain_removed |-> coord \in DOMAIN bodies,
          objects_removed |-> coord \in DOMAIN objects,
          unregister_called |-> IF present /\ coord \in DOMAIN bodies
                                THEN {bodies[coord]} ELSE {},
          unregistered    |-> IF present /\ coord \in DOMAIN bodies
                                THEN {bodies[coord]} ELSE {},
          active_removed  |-> TRUE,
          event           |-> {ChunkDeactivated(coord)}]

\* deactivate_cell(coord).  unreg_ok: unregister_body, if called, returns Ok.
\* The terrain body entry is removed first; unregister_body is called only
\* when a default simulation exists; an Err is logged and swallowed; the
\* cell leaves active_cells and the call returns Ok(ChunkDeactivated).
DeactivateCell(coord, bodies, objects, present, unreg_ok) ==
    LET had_body == coord \in DOMAIN bodies
        had_objects == coord \in DOMAIN objects
        ids == (IF had_body THEN {bodies[coord]} ELSE {})
               \cup (IF had_objects
                     THEN {objects[coord][i] : i \in DOMAIN objects[coord]}
                     ELSE {})
    IN  [result          |-> "ok",
         terrain_removed |-> had_body,
         objects_removed |-> had_objects,
         unregister_called |-> IF present THEN ids ELSE {},
         unregistered    |-> IF present /\ unreg_ok THEN ids ELSE {},
         active_removed  |-> TRUE,
         event           |-> {ChunkDeactivated(coord)}]

\* Variant: the cell is marked active before register_body is tried.
ActivateCellMarkingFirst(coord, active, present, terrain, reg_ok, cfg) ==
    IF coord \in active
    THEN [result |-> "none", register_called |-> {}, registered |-> {},
          body_recorded |-> FALSE, active_added |-> FALSE, event |-> {}]
    ELSE IF ~present
    THEN [result |-> "NoSimulation", register_called |-> {}, registered |-> {},
          body_recorded |-> FALSE, active_added |-> FALSE, event |-> {}]
    ELSE IF terrain = "heightmap" /\ ~reg_ok
    THEN [result |-> "RegisterFailed", register_called |-> {BodyId(coord)},
          registered |-> {}, body_recorded |-> FALSE,
          active_added |-> TRUE, event |-> {}]
    ELSE [result |-> "ok",
          register_called |-> IF terrain = "heightmap" THEN {BodyId(coord)} ELSE {},
          registered |-> IF terrain = "heightmap" THEN {BodyId(coord)} ELSE {},
          body_recorded |-> terrain = "heightmap",
          active_added |-> TRUE,
          event |-> {ChunkActivated(coord, terrain, cfg)}]

\* activate_cell(coord).  reg_ok: register_body, if called, returns Ok.
ActivateCell(coord, active, present, terrain, reg_ok, cfg) ==
    IF coord \in active
    THEN [result |-> "none", register_called |-> {}, registered |-> {},
          body_recorded |-> FALSE, active_added |-> FALSE, event |-> {}]
    ELSE IF ~present
    THEN [result |-> "NoSimulation", register_called |-> {}, registered |-> {},
          body_recorded |-> FALSE, active_added |-> FALSE, event |-> {}]
    ELSE IF terrain = "heightmap" /\ ~reg_ok
    THEN [result |-> "RegisterFailed", register_called |-> {BodyId(coord)},
          registered |-> {}, body_recorded |-> FALSE,
          active_added |-> FALSE, event |-> {}]
    ELSE [result |-> "ok",
          register_called |-> IF terrain = "heightmap" THEN {BodyId(coord)} ELSE {},
          registered |-> IF terrain = "heightmap" THEN {BodyId(coord)} ELSE {},
          body_recorded |-> terrain = "heightmap",
          active_added |-> TRUE,
          event |-> {ChunkActivated(coord, terrain, cfg)}]

\* ------------------------------------------------------------------------
\* Main tick
\* ------------------------------------------------------------------------

\* Variant: the counter is not advanced.
TickCountStalled(tc) == tc

\* self.tick_count += 1
TickCountNext(tc) == tc + 1

\* Variant: no cell is deactivated.
ToDeactivateNothing(active, desired) == {}

\* Variant: every active cell is deactivated, wanted or not.
ToDeactivateAll(active, desired) == active

\* active_cells.difference(&desired)
ToDeactivate(active, desired) == active \ desired

\* desired.difference(&self.active_cells)
ToActivate(active, desired) == desired \ active

\* The order of the two loops of tick(): deactivations, then activations.
LoopOrder(deactivation, activation) == <<deactivation, activation>>

\* One call of tick().  unreg_failed: the cells whose unregister_body call
\* returns Err; reg_failed: the cell whose register_body call returns Err
\* (NoCell: none); d_order, a_order: the iteration order of each loop.
\* Each local of the function is bound once, in program order.
TickWith(unreg_failed, reg_failed, d_order, a_order) ==
    \E tc \in {TickCountNext(tick_count)} :
    \E pp \in {SyncPositions(participant_positions, sim_present, sim_transforms)} :
    \E desired \in {ComputeActiveCells(pp, config)} :
    \* deactivation loop
    \E to_deactivate \in {ToDeactivate(active_cells, desired)} :
    \E d \in {[c \in to_deactivate |->
                DeactivateCell(c, terrain_bodies, cell_objects, sim_present,
                               c \notin unreg_failed)]} :
    \E d_failing \in {{c \in to_deactivate : d[c].result # "ok"}} :
    \E d_visited \in {Visited(to_deactivate, d_failing, d_order)} :
    \E active1 \in {active_cells \ {c \in d_visited : d[c].active_removed}} :
    \E bodies1 \in {[c \in (DOMAIN terrain_bodies)
                            \ {c \in d_visited : d[c].terrain_removed}
                       |-> terrain_bodies[c]]} :
    \E objects1 \in {[c \in (DOMAIN cell_objects)
                            \ {c \in d_visited : d[c].objects_removed}
                       |-> cell_objects[c]]} :
    \E sim1 \in {sim_bodies
                 (-) SetToBag(UNION {d[c].unregistered : c \in d_visited})} :
    \E deactivated \in {PushAll([c \in {b \in d_visited : d[b].result = "ok"}
                                   |-> CHOOSE e \in d[c].event : TRUE])} :
    \* activation loop (not reached when the deactivation loop returned early)
    \E to_activate \in {IF d_failing = {} THEN ToActivate(active1, desired) ELSE {}} :
    \E a \in {[c \in to_activate |->
                ActivateCell(c, active1, sim_present, world_terrain,
                             c # reg_failed, config)]} :
    \E a_failing \in {{c \in to_activate : a[c].result \notin {"ok", "none"}}} :
    \E a_visited \in {Visited(to_activate, a_failing, a_order)} :
    \E activated \in {PushAll([c \in {b \in a_visited : a[b].event # {}}
                                 |-> CHOOSE e \in a[c].event : TRUE])} :
    \E ok \in {d_failing = {} /\ a_failing = {}} :
    \E failed \in {IF d_failing # {} THEN d_failing \cap d_visited
                   ELSE a_failing \cap a_visited} :
        /\ tick_count' = tc
        /\ participant_positions' = pp
        /\ active_cells' = active1 \cup {c \in a_visited : a[c].active_added}
        /\ terrain_bodies' =
              [c \in (DOMAIN bodies1) \cup {c \in a_visited : a[c].body_recorded}
                 |-> IF c \in DOMAIN bodies1 THEN bodies1[c] ELSE BodyId(c)]
        /\ cell_objects' = objects1
        /\ sim_bodies' =
              sim1 (+) PushAll([c \in {b \in a_visited : a[b].registered # {}}
                                  |-> BodyId(c)])
        /\ faults' = faults + Cardinality(unreg_failed)
                            + (IF reg_failed = NoCell THEN 0 ELSE 1)
        /\ tick_calls' = tick_calls + 1
        /\ retry' = IF ok \/ d_failing # {} THEN NoRetry
                     ELSE [cells |-> failed, positions |-> pp]
        /\ last' = [op |-> "tick", ok |-> ok,
                    error |-> IF ok THEN "none"
                              ELSE IF d_failing # {} THEN "DeactivateFailed"
                              ELSE a[CHOOSE c \in failed : TRUE].result,
                    \* the returned TickEvents (nothing is returned with Err)
                    tick |-> IF ok THEN tc ELSE 0,
                    activated |-> IF ok THEN activated ELSE EmptyBag,
                    deactivated |-> IF ok THEN deactivated ELSE EmptyBag,
                    entity_transforms |->
                        IF ok THEN CollectEntityTransforms(pp) ELSE EmptyBag,
                    \* what the call did
                    before_active |-> active_cells,
                    desired |-> desired,
                    to_activate |-> to_activate,
                    deactivate_calls |-> d_visited,
                    activate_calls |-> a_visited,
                    local_deactivated |-> deactivated,
                    local_activated |-> activated,
                    unregister_failed |-> unreg_failed,
                    register_failed |-> reg_failed,
                    retrying |-> IF pp = retry.positions THEN retry.cells ELSE {},
                    unregister_skipped |->
                        {c \in d_visited : d[c].terrain_removed /\ ~sim_present},
                    failed |-> failed,
                    physics_calls |->
                        LoopOrder([op |-> "unregister_body",
                                   ids |-> UNION {d[c].unregister_called : c \in d_visited}],
                                  [op |-> "register_body",
                                   ids |-> UNION {a[c].register_called : c \in a_visited}])]
        /\ UNCHANGED <<config, world_terrain, sim_present, sim_transforms, last_op>>

\* tick(), with every outcome the physics backend may produce.
Tick ==
    /\ tick_calls < MaxTicks
    /\ LET pp == SyncPositions(participant_positions, sim_present, sim_transforms)
           desired == ComputeActiveCells(pp, config)
           to_deactivate == ToDeactivate(active_cells, desired)
           to_activate == ToActivate(active_cells, desired)
           \* cells whose unregister_body / register_body call may return Err
           unreg_cells == FailureSites({c \in to_deactivate :
                             c \in DOMAIN terrain_bodies /\ sim_present})
           reg_cells == FailureSites({c \in to_activate :
                             sim_present /\ world_terrain = "heightmap"})
       IN  \E unreg_failed \in KSubsets(unreg_cells, MaxFaults - faults) :
           \E reg_failed \in {NoCell} \cup
                  (IF faults + Cardinality(unreg_failed) < MaxFaults
                   THEN reg_cells ELSE {}) :
           \E a_order \in (IF (reg_failed # NoCell \/ ~sim_present) /\ to_activate # {}
                           THEN IterationOrders ELSE {"ascending"}) :
               TickWith(unreg_failed, reg_failed, "ascending", a_order)

\* ------------------------------------------------------------------------
\* Structures and build_snapshot
\* ------------------------------------------------------------------------

\* An f32 bound of query_rect: a finite value, or -inf (inf = -1) / +inf
\* (inf = 1).
Finite(n) == [inf |-> 0, v |-> n]
NegInfinity == [inf |-> -1, v |-> 0]
Infinity == [inf |-> 1, v |-> 0]

\* a <= b on those values.
Leq(a, b) == a.inf < b.inf \/ (a.inf = 0 /\ b.inf = 0 /\ a.v <= b.v)
            \/ (a.inf = b.inf /\ a.inf # 0)

\* StructureInstance::new: bounds_radius is 5.0.
BoundsRadius == 5

StructureInstance(id, position, metadata) ==
    [id |-> id, position |-> position, bounds_radius |-> BoundsRadius,
     metadata |-> metadata]

\* world.structures: fixed when the World is built; the engine holds the
\* World behind an Arc and never writes to it.  One structure names its
\* type_id, one gives a type_id that is not a string, one has no metadata.
\* A metadata value is a serde_json::Value: its kind and its text.
Structures ==
    {StructureInstance("rock-1", Vec3(100, -50, 0),
                       [type_id |-> [kind |-> "string", text |-> "rock"]]),
     StructureInstance("hut-2", Vec3(-7, 3, 2),
                       [type_id |-> [kind |-> "number", text |-> "7"]]),
     StructureInstance("wall-3", Vec3(0, 0, 0), EmptyMap)}

\* Variant: the rectangle is the view of a client at the origin.
QueryRectAroundOrigin(instances, min_x, min_y, max_x, max_y) ==
    {s \in instances :
        /\ Leq(Finite(-64), Finite(s.position.x + s.bounds_radius))
        /\ Leq(Finite(s.position.x - s.bounds_radius), Finite(64))
        /\ Leq(Finite(-64), Finite(s.position.y + s.bounds_radius))
        /\ Leq(Finite(s.position.y - s.bounds_radius), Finite(64))}

\* StructureRegistry::query_rect: the structures whose bounding circle
\* overlaps the rectangle.
QueryRect(instances, min_x, min_y, max_x, max_y) ==
    {s \in instances :
        /\ Leq(min_x, Finite(s.position.x + s.bounds_radius))
        /\ Leq(Finite(s.position.x - s.bounds_radius), max_x)
        /\ Leq(min_y, Finite(s.position.y + s.bounds_radius))
        /\ Leq(Finite(s.position.y - s.bounds_radius), max_y)}

\* metadata.get("type_id").and_then(as_str).unwrap_or("unknown")
TypeId(metadata) ==
    IF "type_id" \in DOMAIN metadata /\ metadata["type_id"].kind = "string"
    THEN metadata["type_id"].text ELSE "unknown"

StructureSpawned(s) ==
    [structure_id |-> s.id, type_id |-> TypeId(s.metadata),
     x |-> s.position.x, y |-> s.position.y, z |-> s.position.z,
     rotation_y |-> 0, metadata |-> s.metadata]

EntitySpawned(id, pos) ==
    [entity_id |-> id, archetype |-> "participant",
     x |-> pos.x, y |-> pos.y, z |-> pos.z,
     rotation_y |-> 0, metadata |-> "null"]

\* The sessions a snapshot is asked for; build_snapshot ignores the argument.
Sessions == {"sess"}

\* build_snapshot(session): the returned WorldSnapshot; each Vec as a bag,
\* since it is collected in HashSet / HashMap iteration order.
WorldSnapshot(session) ==
    [active_chunks |-> PushAll([c \in active_cells
                                  |-> ChunkActivated(c, world_terrain, config)]),
     structures |-> PushAll([s \in QueryRect(Structures, NegInfinity, NegInfinity,
                                             Infinity, Infinity)
                               |-> StructureSpawned(s)]),
     entities |-> PushAll([id \in DOMAIN participant_positions
                             |-> EntitySpawned(id, participant_positions[id])])]

\* build_snapshot takes &self: it returns the snapshot and writes nothing.
BuildSnapshot(session) ==
    /\ last' = [op |-> "snapshot", ok |-> TRUE, snapshot |-> WorldSnapshot(session)]
    /\ UNCHANGED <<config, world_terrain, engine_vars, physics_vars,
                   tick_calls, last_op, retry>>

Next ==
    \/ /\ \E id \in ParticipantIds : \E p \in CommandPositions(id) :
              RegisterParticipant(id, p)
       /\ UNCHANGED detached_vars
    \/ /\ \E id \in ParticipantIds : UnregisterParticipant(id)
       /\ UNCHANGED detached_vars
    \/ /\ Tick
       /\ UNCHANGED detached_vars
    \/ /\ SetDefaultSimulation
       /\ UNCHANGED detached_vars
    \/ /\ ClearDefaultSimulation
       /\ UNCHANGED detached_vars
    \/ /\ \E id \in TransformIds, t \in TransformPositions : SetTransform(id, t)
       /\ UNCHANGED detached_vars
    \/ /\ \E session \in Sessions : BuildSnapshot(session)
       /\ UNCHANGED detached_vars

Spec == Init /\ [][Next]_vars

\* ========================================================================
\* WorldBusAgent (bus.rs): command handlers and the tick task around one
\* WorldService behind a Mutex
\* ========================================================================

\* Ticks the tick task may run.
MaxBusTicks == 2

\* Publish calls that may return Err.
MaxPublishFaults == 1

\* WorldBusConfig::default().session
DefaultSession == "default"

\* JSON values of a command payload.
JsonString(text) == [kind |-> "string", text |-> text]
JsonNumber(n) == [kind |-> "number", n |-> n]

\* Payload of a well-formed join / teleport and of a well-formed leave.
PositionPayload(id, pos) ==
    [id |-> JsonString(id), x |-> JsonNumber(pos.x), y |-> JsonNumber(pos.y),
     z |-> JsonNumber(pos.z)]
LeavePayload(id) == [id |-> JsonString(id)]

\* The commands the coordinator sends, each with its command_id.
Commands ==
    {[command_id |-> "c1", subject |-> "world.participant.join",
      payload |-> PositionPayload("alice", Vec3(0, 0, 0))],
     [command_id |-> "c3", subject |-> "world.command.teleport",
      payload |-> PositionPayload("alice", Vec3(-3, 1, 7))],
     [command_id |-> "c4", subject |-> "world.participant.leave",
      payload |-> LeavePayload("alice")],
     [command_id |-> "c5", subject |-> "world.command.stats",
      payload |-> EmptyMap],
     [command_id |-> "c6", subject |-> "world.cmd.snapshot",
      payload |-> EmptyMap],
     \* z is missing
     [command_id |-> "c7", subject |-> "world.participant.join",
      payload |-> [id |-> JsonString("bob"), x |-> JsonNumber(0),
                   y |-> JsonNumber(0)]],
     \* id is not a string
     [command_id |-> "c8", subject |-> "world.participant.leave",
      payload |-> [id |-> JsonNumber(7)]],
     \* empty object
     [command_id |-> "c9", subject |-> "world.command.teleport",
      payload |-> EmptyMap]}

\* The fields ParticipantJoinMsg / TeleportMsg / ParticipantLeaveMsg declare,
\* with the JSON kind each one deserialises from.
MsgFields(subject) ==
    IF subject = "world.participant.leave"
    THEN [id |-> "string"]
    ELSE [id |-> "string", x |-> "number", y |-> "number", z |-> "number"]

\* Variant: a missing or mistyped coordinate is read as 0 and a mistyped id
\* as the empty string.
FromValueLenient(payload, fields) ==
    [ok |-> TRUE,
     id |-> IF "id" \in DOMAIN payload /\ payload["id"].kind = "string"
            THEN payload["id"].text ELSE "bob",
     position |-> IF "x" \in DOMAIN fields
                     /\ \A f \in {"x", "y", "z"} :
                           f \in DOMAIN payload /\ payload[f].kind = "number"
                  THEN Vec3(payload["x"].n, payload["y"].n, payload["z"].n)
                  ELSE Vec3(0, 0, 0)]

\* serde_json::from_value::<Msg>(payload): Ok(m), or Err(e) when a declared
\* field has the wrong kind or is missing (unknown keys are ignored).
FromValue(payload, fields) ==
    IF \E f \in DOMAIN fields : f \in DOMAIN payload /\ payload[f].kind # fields[f]
    THEN [ok |-> FALSE, error |-> "invalid type"]
    ELSE IF \E f \in DOMAIN fields : f \notin DOMAIN payload
    THEN [ok |-> FALSE, error |-> "missing field"]
    ELSE [ok |-> TRUE,
          id |-> payload["id"].text,
          position |-> IF "x" \in DOMAIN fields
                       THEN Vec3(payload["x"].n, payload["y"].n, payload["z"].n)
                       ELSE Vec3(0, 0, 0)]

\* The `result` of a CommandResponse: None, or serde_json::to_value(..).ok().
JsonNull == [kind |-> "null"]
ToValue(kind, value) == [kind |-> kind, value |-> value]

\* CommandResponse::success / CommandResponse::failed
Success(command_id, result) ==
    [command_id |-> command_id, status |-> "success", result |-> result]
Failed(command_id, error) ==
    [command_id |-> command_id, status |-> "failed", message |-> error]

\* format!("Invalid payload: {}", e)
InvalidPayload(e) == "Invalid payload: " \o e

\* WorldEvent::new(session, frame, payload), ready for one subject.
WorldEvent(subject, session, frame, payload) ==
    [subject |-> subject, session |-> session, frame |-> frame,
     payload |-> payload]

\* Every order in which a Vec may hold the elements of bag b.
RECURSIVE Orderings(_)
Orderings(b) ==
    IF BagToSet(b) = {} THEN {<<>>}
    ELSE UNION {{<<e>> \o t : t \in Orderings(b (-) SetToBag({e}))}
                  : e \in BagToSet(b)}

\* seq with f applied to every element.
Wrap(seq, subject, session, frame) ==
    [i \in 1..Len(seq) |-> WorldEvent(subject, session, frame, seq[i])]

\* Variant: the deactivations go out first, as tick() computes them.
PublishOrderDeactivatedFirst(activated, deactivated, transforms) ==
    deactivated \o activated \o transforms

\* The three publish loops of the tick task, in program order.
PublishOrder(activated, deactivated, transforms) ==
    activated \o deactivated \o transforms

\* Variant: the envelope carries the number of the tick before.
FrameOfPrevious(events) == events.tick - 1

\* let frame = events.tick;
FrameOf(events) == events.tick

\* Variant: any task may take the Mutex while another holds it.
LockAvailableAlways(held) == TRUE

\* parking_lot::Mutex::lock() returns only when the Mutex is not held.
LockAvailable(held) == ~held

\* Variant: the guard lives until the end of the loop body.
GuardKept(queue) == queue # <<>>

\* The MutexGuard of the tick task is dropped at the end of the block that
\* calls tick(), whatever is left to publish.
GuardDropped(queue) == FALSE

\* Variant: the task ends when a tick leaves nothing to publish.
AfterTickStopWhenIdle(queue) == IF queue = <<>> THEN "exited" ELSE "publishing"

\* Where the tick task goes after the match on tick_result: into the publish
\* loops when there is something to publish, otherwise back to the timer.
AfterTick(queue) == IF queue = <<>> THEN "timer" ELSE "publishing"

\* timer.tick().await completes.
TimerFires ==
    /\ tick_pc = "timer"
    /\ tick_calls < MaxBusTicks
    /\ tick_pc' = "acquire"
    /\ UNCHANGED <<config, world_terrain, engine_vars, physics_vars, tick_calls,
                   last_op, retry, last, engine_lock, pending, published,
                   publish_faults, handler, response>>
    /\ UNCHANGED <<client_vars, apart_vars>>

\* service_tick.lock()
TickAcquire ==
    /\ tick_pc = "acquire"
    /\ LockAvailable(engine_lock)
    /\ engine_lock' = TRUE
    /\ tick_pc' = "locked"
    /\ UNCHANGED <<config, world_terrain, engine_vars, physics_vars, tick_calls,
                   last_op, retry, last, pending, published, publish_faults,
                   handler, response>>
    /\ UNCHANGED <<client_vars, apart_vars>>

\* svc.tick() under the lock, the guard dropped at the end of the block, and
\* the match on the result: Ok queues the events for the three publish loops,
\* Err is logged.
TickRun ==
    /\ tick_pc = "locked"
    /\ Tick
    /\ \E activated \in Orderings(last'.activated),
          deactivated \in Orderings(last'.deactivated),
          transforms \in Orderings(last'.entity_transforms) :
          pending' =
            IF last'.ok
            THEN PublishOrder(
                   Wrap(activated, "world.chunk.activated", DefaultSession,
                        FrameOf(last')),
                   Wrap(deactivated, "world.chunk.deactivated", DefaultSession,
                        FrameOf(last')),
                   Wrap(transforms, "world.entity.transform", DefaultSession,
                        FrameOf(last')))
            ELSE <<>>
    /\ engine_lock' = GuardDropped(pending')
    /\ tick_pc' = AfterTick(pending')
    /\ UNCHANGED <<published, publish_faults, handler, response>>
    /\ UNCHANGED <<client_vars, apart_vars>>

\* publish_event(..).await for the next event: the publish returns Ok or Err;
\* Err is logged and the loop goes on.
PublishNext ==
    /\ tick_pc = "publishing"
    /\ pending # <<>>
    /\ \E ok \in {TRUE} \cup (IF publish_faults < MaxPublishFaults
                              THEN {FALSE} ELSE {}) :
          /\ published' = Append(published, [event |-> Head(pending), ok |-> ok])
          /\ publish_faults' = IF ok THEN publish_faults ELSE publish_faults + 1
    /\ pending' = Tail(pending)
    /\ tick_pc' = AfterTick(Tail(pending))
    /\ UNCHANGED <<config, world_terrain, engine_vars, physics_vars, tick_calls,
                   last_op, retry, last, engine_lock, handler, response>>
    /\ UNCHANGED <<client_vars, apart_vars>>

\* A command arrives and its handler starts.  join / leave / teleport decode
\* the payload first: Err answers at once with a failure, Ok goes on to the
\* lock.  stats and snapshot go to the lock directly.
Command(cmd) ==
    /\ handler = NoCommand
    /\ \E m \in {IF cmd.subject \in {"world.command.stats", "world.cmd.snapshot"}
                 THEN [ok |-> TRUE]
                 ELSE FromValue(cmd.payload, MsgFields(cmd.subject))} :
          IF m.ok
          THEN /\ handler' = [pc |-> "acquire", command_id |-> cmd.command_id,
                              subject |-> cmd.subject, m |-> m]
               /\ UNCHANGED response
          ELSE /\ response' = Failed(cmd.command_id, InvalidPayload(m.error))
               /\ UNCHANGED handler
    /\ UNCHANGED <<config, world_terrain, engine_vars, physics_vars, tick_calls,
                   last_op, retry, last, engine_lock, tick_pc, pending,
                   published, publish_faults>>
    /\ UNCHANGED <<client_vars, apart_vars>>

\* svc.lock() in a handler
HandlerAcquire ==
    /\ handler.pc = "acquire"
    /\ LockAvailable(engine_lock)
    /\ engine_lock' = TRUE
    /\ handler' = [handler EXCEPT !.pc = "locked"]
    /\ UNCHANGED <<config, world_terrain, engine_vars, physics_vars, tick_calls,
                   last_op, retry, last, tick_pc, pending, published,
                   publish_faults, response>>
    /\ UNCHANGED <<client_vars, apart_vars>>

\* The engine call of a handler under the lock, the guard dropped at the end
\* of the statement, and the success response.
HandlerRun ==
    /\ handler.pc = "locked"
    /\ \/ /\ handler.subject \in {"world.participant.join",
                                  "world.command.teleport"}
          /\ RegisterParticipant(handler.m.id, handler.m.position)
          /\ response' = Success(handler.command_id, JsonNull)
       \/ /\ handler.subject = "world.participant.leave"
          /\ UnregisterParticipant(handler.m.id)
          /\ response' = Success(handler.command_id, JsonNull)
       \/ /\ handler.subject = "world.command.stats"
          /\ response' = Success(handler.command_id, ToValue("stats", stats))
          /\ last' = Idle
          /\ UNCHANGED <<config, world_terrain, engine_vars, physics_vars,
                         tick_calls, last_op, retry>>
       \/ /\ handler.subject = "world.cmd.snapshot"
          /\ BuildSnapshot(DefaultSession)
          /\ response' = Success(handler.command_id,
                               ToValue("snapshot", last'.snapshot))
    /\ engine_lock' = FALSE
    /\ handler' = NoCommand
    /\ UNCHANGED <<tick_pc, pending, published, publish_faults>>
    /\ UNCHANGED <<client_vars, apart_vars>>

\* run(): the service as the tests and the binary build it (heightmap
\* terrain, with or without a default simulation), handlers registered, the
\* tick task spawned.  The backend accepts every register / unregister call.
BusInit ==
    /\ config = [cell_size |-> 2, activation_radius |-> 0]
    /\ world_terrain = "heightmap"
    /\ active_cells = {}
    /\ terrain_bodies = EmptyMap
    /\ cell_objects = EmptyMap
    /\ participant_positions = EmptyMap
    /\ tick_count = 0
    /\ sim_present \in BOOLEAN
    /\ sim_transforms = EmptyMap
    /\ sim_bodies = EmptyBag
    /\ faults = MaxFaults
    /\ tick_calls = 0
    /\ last_op = [id \in ParticipantIds |-> "none"]
    /\ retry = NoRetry
    /\ last = Idle
    /\ AgentNotStarted
    /\ ClientNotStarted
    /\ ApartIdle

BusNext ==
    \/ TimerFires
    \/ TickAcquire
    \/ TickRun
    \/ PublishNext
    \/ \E cmd \in Commands : Command(cmd)
    \/ HandlerAcquire
    \/ HandlerRun

BusSpec == BusInit /\ [][BusNext]_vars

\* The tick task under the scheduling the runtime gives it: the interval
\* timer fires, a ready task is polled, a publish call returns, a handler
\* that holds the Mutex finishes its engine call, and the Mutex (eventually
\* fair) is not handed to handlers forever while the tick task waits for it.
FairBusSpec ==
    /\ BusInit
    /\ [][BusNext]_vars
    /\ WF_vars(TimerFires)
    /\ SF_vars(TickAcquire)
    /\ WF_vars(TickRun)
    /\ WF_vars(PublishNext)
    /\ WF_vars(HandlerRun)

\* ------------------------------------------------------------------------
\* JanetWorldClient (clients/godot): the local mirror of the world
\* ------------------------------------------------------------------------

\* process() applies at most MaxMirrorEvents events (caps mirror_log).
MaxMirrorEvents == 4

\* events.rs WorldEvent values the bridge thread may queue.
MirrorEvents ==
    { [type |-> "Connected", session |-> "sess", participant_id |-> "alice",
       frame |-> 2],
      [type |-> "Disconnected", reason |-> "closed"],
      [type |-> "ChunkActivated", chunk_id |-> "terrain.0.0", cx |-> 0,
       cy |-> 0, seed |-> 42, lod |-> 0, chunk_size |-> 2],
      [type |-> "ChunkActivated", chunk_id |-> "terrain.1.0", cx |-> 1,
       cy |-> 0, seed |-> 42, lod |-> 0, chunk_size |-> 2],
      [type |-> "ChunkDeactivated", chunk_id |-> "terrain.0.0"],
      [type |-> "StructureSpawned", structure_id |-> "rock-1",
       type_id |-> "rock", x |-> 100, y |-> -50, z |-> 0, rotation_y |-> 0],
      [type |-> "StructureRemoved", structure_id |-> "rock-1"],
      [type |-> "EntitySpawned", entity_id |-> "alice",
       archetype |-> "participant", x |-> 0, y |-> 0, z |-> 0,
       rotation_y |-> 0],
      [type |-> "EntityRemoved", entity_id |-> "alice"],
      [type |-> "EntityTransform", entity_id |-> "alice", x |-> -3, y |-> 1,
       z |-> 7, rotation_y |-> 0, vx |-> 1, vy |-> 0, vz |-> 0, frame |-> 5,
       dt |-> 1],
      [type |-> "EntityTransform", entity_id |-> "alice", x |-> -2, y |-> 1,
       z |-> 7, rotation_y |-> 0, vx |-> 1, vy |-> 0, vz |-> 0, frame |-> 4,
       dt |-> 1],
      [type |-> "SnapshotBegin", frame |-> 3],
      [type |-> "SnapshotEnd"] }

\* emit_signal(name, args)
Signal(name, args) == [name |-> name, args |-> args]

\* u64::max
Max(a, b) == IF a >= b THEN a ELSE b

\* The values of a HashMap, as a bag.
Values(m) == PushAll(m)

\* ClientWorldCache::clear
Clear(cache) ==
    [chunks |-> EmptyMap, structures |-> EmptyMap, entities |-> EmptyMap,
     last_frame |-> 0, in_snapshot |-> FALSE]

\* ClientWorldCache::activate_chunk
ActivateChunk(cache, chunk_id, cx, cy, seed, lod, chunk_size) ==
    [cache EXCEPT !.chunks =
        MapInsert(@, chunk_id,
                  [chunk_id |-> chunk_id, cx |-> cx, cy |-> cy, seed |-> seed,
                   lod |-> lod, chunk_size |-> chunk_size])]

\* ClientWorldCache::deactivate_chunk
DeactivateChunk(cache, chunk_id) ==
    [cache EXCEPT !.chunks = MapRemove(@, chunk_id)]

\* ClientWorldCache::spawn_structure
SpawnStructure(cache, structure_id, type_id, x, y, z, rotation_y) ==
    [cache EXCEPT !.structures =
        MapInsert(@, structure_id,
                  [structure_id |-> structure_id, type_id |-> type_id,
                   x |-> x, y |-> y, z |-> z, rotation_y |-> rotation_y])]

\* ClientWorldCache::remove_structure
RemoveStructure(cache, structure_id) ==
    [cache EXCEPT !.structures = MapRemove(@, structure_id)]

\* ClientWorldCache::spawn_entity: velocity, frame and dt start at zero.
SpawnEntity(cache, entity_id, archetype, x, y, z, rotation_y) ==
    [cache EXCEPT !.entities =
        MapInsert(@, entity_id,
                  [entity_id |-> entity_id, archetype |-> archetype,
                   x |-> x, y |-> y, z |-> z, rotation_y |-> rotation_y,
                   vx |-> 0, vy |-> 0, vz |-> 0, frame |-> 0, dt |-> 0])]

\* ClientWorldCache::remove_entity
RemoveEntity(cache, entity_id) ==
    [cache EXCEPT !.entities = MapRemove(@, entity_id)]

\* Variant: an entity that is not cached is entered with the transform.
UpdateEntityTransformOrInsert(cache, ev) ==
    [cache EXCEPT !.entities =
        MapInsert(@, ev.entity_id,
                  [entity_id |-> ev.entity_id, archetype |-> "",
                   x |-> ev.x, y |-> ev.y, z |-> ev.z,
                   rotation_y |-> ev.rotation_y, vx |-> ev.vx, vy |-> ev.vy,
                   vz |-> ev.vz, frame |-> ev.frame, dt |-> ev.dt])]

\* ClientWorldCache::update_entity_transform: only an entity already cached.
UpdateEntityTransform(cache, ev) ==
    IF ev.entity_id \in DOMAIN cache.entities
    THEN [cache EXCEPT !.entities[ev.entity_id] =
            [@ EXCEPT !.x = ev.x, !.y = ev.y, !.z = ev.z,
                      !.rotation_y = ev.rotation_y, !.vx = ev.vx,
                      !.vy = ev.vy, !.vz = ev.vz, !.frame = ev.frame,
                      !.dt = ev.dt]]
    ELSE cache

\* The per-event signal, emitted only `if !self.cache.in_snapshot`.
UnlessInSnapshot(cache, signal) ==
    IF ~cache.in_snapshot THEN <<signal>> ELSE <<>>

\* What the node is after one arm of apply_event.
Applied(cache, handle, signals) ==
    [cache |-> cache, handle |-> handle, signals |-> signals]

ChunkSignal(chunk) ==
    Signal("chunk_activated",
           <<chunk.chunk_id, chunk.cx, chunk.cy, chunk.seed, chunk.lod,
             chunk.chunk_size>>)

StructureSignal(s) ==
    Signal("structure_spawned",
           <<s.structure_id, s.type_id, s.x, s.y, s.z, s.rotation_y>>)

EntitySignal(e) ==
    Signal("entity_spawned",
           <<e.entity_id, e.archetype, e.x, e.y, e.z, e.rotation_y>>)

\* seq with a signal made of every element.
SignalsOf(seq, kind) ==
    [i \in 1..Len(seq) |->
        CASE kind = "chunk" -> ChunkSignal(seq[i])
          [] kind = "structure" -> StructureSignal(seq[i])
          [] OTHER -> EntitySignal(seq[i])]

\* apply_event, arm SnapshotBegin: the flag is set, then the cache cleared.
ApplySnapshotBegin(cache, handle, ev) ==
    {Applied(Clear([cache EXCEPT !.in_snapshot = TRUE]), handle,
             <<Signal("snapshot_begin", <<ev.frame>>)>>)}

\* Variant: the cache is emptied once the snapshot has been announced.
ApplySnapshotEndClearing(cache, handle) ==
    {Applied(Clear(cache), handle, <<Signal("snapshot_end", <<>>)>>)}

\* apply_event, arm SnapshotEnd: snapshot_end, then one spawn signal per
\* cached chunk, structure and entity, each map in its iteration order.
ApplySnapshotEnd(cache, handle) ==
    {Applied([cache EXCEPT !.in_snapshot = FALSE], handle,
             <<Signal("snapshot_end", <<>>)>>
               \o SignalsOf(chunks, "chunk")
               \o SignalsOf(structures, "structure")
               \o SignalsOf(entities, "entity")) :
        chunks \in Orderings(Values(cache.chunks)),
        structures \in Orderings(Values(cache.structures)),
        entities \in Orderings(Values(cache.entities))}

\* An arm that updates the cache and then emits its signal unless the
\* cache says a snapshot is being applied.
Suppressible(cache, handle, signal) ==
    {Applied(cache, handle, UnlessInSnapshot(cache, signal))}

\* apply_event: every outcome of applying ev to the node.
ApplyEventOutcomes(cache, handle, ev) ==
    CASE ev.type = "Connected" ->
           {Applied(cache, handle,
                    <<Signal("connection_state_changed", <<"active">>)>>)}
      [] ev.type = "Disconnected" ->
           {Applied(Clear(cache), FALSE,
                    <<Signal("connection_state_changed",
                             <<"disconnected">>)>>)}
      [] ev.type = "ChunkActivated" ->
           Suppressible(ActivateChunk(cache, ev.chunk_id, ev.cx, ev.cy,
                                      ev.seed, ev.lod, ev.chunk_size),
                        handle, ChunkSignal(ev))
      [] ev.type = "ChunkDeactivated" ->
           Suppressible(DeactivateChunk(cache, ev.chunk_id), handle,
                        Signal("chunk_deactivated", <<ev.chunk_id>>))
      [] ev.type = "StructureSpawned" ->
           Suppressible(SpawnStructure(cache, ev.structure_id, ev.type_id,
                                       ev.x, ev.y, ev.z, ev.rotation_y),
                        handle, StructureSignal(ev))
      [] ev.type = "StructureRemoved" ->
           Suppressible(RemoveStructure(cache, ev.structure_id), handle,
                        Signal("structure_removed", <<ev.structure_id>>))
      [] ev.type = "EntitySpawned" ->
           Suppressible(SpawnEntity(cache, ev.entity_id, ev.archetype,
                                    ev.x, ev.y, ev.z, ev.rotation_y),
                        handle, EntitySignal(ev))
      [] ev.type = "EntityRemoved" ->
           Suppressible(RemoveEntity(cache, ev.entity_id), handle,
                        Signal("entity_removed", <<ev.entity_id>>))
      [] ev.type = "EntityTransform" ->
           {Applied([UpdateEntityTransform(cache, ev) EXCEPT
                        !.last_frame = Max(@, ev.frame)],
                    handle,
                    <<Signal("entity_transform",
                             <<ev.entity_id, ev.x, ev.y, ev.z, ev.rotation_y,
                               ev.vx, ev.vy, ev.vz, ev.frame, ev.dt>>)>>)}
      [] ev.type = "SnapshotBegin" -> ApplySnapshotBegin(cache, handle, ev)
      [] ev.type = "SnapshotEnd" -> ApplySnapshotEnd(cache, handle)

\* process(), one event of the drained queue: nothing is polled once the
\* handle is gone.
ApplyEvent(ev) ==
    /\ mirror_kind = "native"
    /\ mirror_handle
    /\ Len(mirror_log) < MaxMirrorEvents
    /\ \E outcome \in ApplyEventOutcomes(mirror_cache, mirror_handle, ev) :
          /\ mirror_cache' = outcome.cache
          /\ mirror_handle' = outcome.handle
          /\ mirror_log' = Append(mirror_log,
                                  [event |-> ev, signals |-> outcome.signals])
    /\ UNCHANGED <<server_vars, apart_vars, mirror_kind>>

\* clients/wasm apply_event, arm SnapshotEnd: the flag is lowered and
\* on_snapshot_end called; no spawn callback follows.
BrowserApplySnapshotEnd(cache, handle) ==
    {Applied([cache EXCEPT !.in_snapshot = FALSE], handle,
             <<Signal("snapshot_end", <<>>)>>)}

\* clients/wasm apply_event with every callback registered: the arms of the
\* native node, ported, except SnapshotEnd.
BrowserApplyEventOutcomes(cache, handle, ev) ==
    IF ev.type = "SnapshotEnd"
    THEN BrowserApplySnapshotEnd(cache, handle)
    ELSE ApplyEventOutcomes(cache, handle, ev)

\* clients/wasm poll(), one event of the drained queue: nothing is drained
\* once the bridge is None.
BrowserApplyEvent(ev) ==
    /\ mirror_kind = "browser"
    /\ mirror_handle
    /\ Len(mirror_log) < MaxMirrorEvents
    /\ \E outcome \in
            BrowserApplyEventOutcomes(mirror_cache, mirror_handle, ev) :
          /\ mirror_cache' = outcome.cache
          /\ mirror_handle' = outcome.handle
          /\ mirror_log' = Append(mirror_log,
                                  [event |-> ev, signals |-> outcome.signals])
    /\ UNCHANGED <<server_vars, apart_vars, mirror_kind>>

\* The two client mirrors.
MirrorKinds == {"native", "browser"}

\* apply_event of the mirror of the given kind.
OutcomesOf(kind, cache, handle, ev) ==
    IF kind = "browser"
    THEN BrowserApplyEventOutcomes(cache, handle, ev)
    ELSE ApplyEventOutcomes(cache, handle, ev)

\* The server of the mirror's specification: constructed and left alone.
MirrorInit ==
    /\ config = [cell_size |-> 2, activation_radius |-> 0]
    /\ world_terrain = "heightmap"
    /\ active_cells = {}
    /\ terrain_bodies = EmptyMap
    /\ cell_objects = EmptyMap
    /\ participant_positions = EmptyMap
    /\ tick_count = 0
    /\ sim_present = TRUE
    /\ sim_transforms = EmptyMap
    /\ sim_bodies = EmptyBag
    /\ faults = 0
    /\ tick_calls = 0
    /\ last_op = [id \in ParticipantIds |-> "none"]
    /\ retry = NoRetry
    /\ last = Idle
    /\ AgentNotStarted
    /\ mirror_cache = EmptyCache
    /\ mirror_handle = TRUE
    /\ mirror_log = <<>>
    /\ mirror_kind \in MirrorKinds
    /\ BridgeSpawned
    /\ ApartIdle

MirrorNext ==
    \/ \E ev \in MirrorEvents : ApplyEvent(ev) /\ UNCHANGED bridge_vars
    \/ \E ev \in MirrorEvents : BrowserApplyEvent(ev) /\ UNCHANGED bridge_vars

MirrorSpec == MirrorInit /\ [][MirrorNext]_vars

\* ------------------------------------------------------------------------
\* The bridges (clients/godot/src/bridge.rs, clients/wasm/src/bridge.rs)
\* ------------------------------------------------------------------------

\* event_buffer, 1024 in BridgeConfig::default and in process_ops, scaled.
EventBuffer == 3

\* intent_buffer of the native bridge, 64 in BridgeConfig::default, scaled.
IntentBuffer == 1

\* drain_events(256) of the browser poll(), scaled with the buffer.
DrainLimit == 2

\* The bus delivers at most MaxMessages messages or frames to the client.
MaxMessages == 2

\* The application queues at most MaxIntents intents.
MaxIntents == 2

\* The participant id of the client's BridgeConfig, and its session.
ClientId == "alice"
ClientSession == "default"

\* A subject, as its dot-separated tokens.
Subject(a, b, c) == <<a, b, c>>

\* str::starts_with, on whole tokens.
StartsWith(subject, prefix) ==
    /\ Len(prefix) <= Len(subject)
    /\ SubSeq(subject, 1, Len(prefix)) = prefix

\* serde_json::from_slice: a parsed object, or an error.
Json(value) == [ok |-> TRUE, value |-> value]
BadJson == [ok |-> FALSE]

\* v.get(key) ... unwrap_or(default)
Field(v, key, default) == IF key \in DOMAIN v THEN v[key] ELSE default

\* v.get(key).and_then(|f| f.as_u64()).unwrap_or(0)
U64Field(v, key) == IF key \in DOMAIN v /\ v[key] \in Nat THEN v[key] ELSE 0

\* str_field / int_field / float_field
StrField(v, key) == Field(v, key, "")
IntField(v, key) == Field(v, key, 0)
FloatField(v, key) == Field(v, key, 0)

\* The ChunkActivated event read from a JSON object.
ChunkActivatedFrom(c) ==
    [type |-> "ChunkActivated", chunk_id |-> StrField(c, "chunk_id"),
     cx |-> IntField(c, "cx"), cy |-> IntField(c, "cy"),
     seed |-> U64Field(c, "seed"), lod |-> U64Field(c, "lod"),
     chunk_size |-> FloatField(c, "chunk_size")]

StructureSpawnedFrom(s) ==
    [type |-> "StructureSpawned",
     structure_id |-> StrField(s, "structure_id"),
     type_id |-> StrField(s, "type_id"), x |-> FloatField(s, "x"),
     y |-> FloatField(s, "y"), z |-> FloatField(s, "z"),
     rotation_y |-> FloatField(s, "rotation_y")]

EntitySpawnedFrom(e) ==
    [type |-> "EntitySpawned", entity_id |-> StrField(e, "entity_id"),
     archetype |-> StrField(e, "archetype"), x |-> FloatField(e, "x"),
     y |-> FloatField(e, "y"), z |-> FloatField(e, "z"),
     rotation_y |-> FloatField(e, "rotation_y")]

\* Variant: the elements are read from the last to the first.
EventsFromReversed(seq, kind) ==
    [i \in 1..Len(seq) |->
        CASE kind = "chunk" -> ChunkActivatedFrom(seq[Len(seq) + 1 - i])
          [] kind = "structure" -> StructureSpawnedFrom(seq[Len(seq) + 1 - i])
          [] OTHER -> EntitySpawnedFrom(seq[Len(seq) + 1 - i])]

\* seq with the event made of every element.
EventsFrom(seq, kind) ==
    [i \in 1..Len(seq) |->
        CASE kind = "chunk" -> ChunkActivatedFrom(seq[i])
          [] kind = "structure" -> StructureSpawnedFrom(seq[i])
          [] OTHER -> EntitySpawnedFrom(seq[i])]

\* parse_bus_message / parse_nats_message: the envelope is stripped, the
\* subject dispatched by prefix; a snapshot expands into its events.
ParseBusMessage(subject, json) ==
    IF ~json.ok THEN <<>>
    ELSE LET v == json.value
             frame == U64Field(v, "frame")
             inner == Field(v, "payload", v)
         IN CASE StartsWith(subject, Subject("world", "chunk", "activated")) ->
                   <<ChunkActivatedFrom(inner)>>
              [] StartsWith(subject, Subject("world", "chunk", "deactivated")) ->
                   <<[type |-> "ChunkDeactivated",
                      chunk_id |-> StrField(inner, "chunk_id")]>>
              [] StartsWith(subject, Subject("world", "structure", "spawned")) ->
                   <<StructureSpawnedFrom(inner)>>
              [] StartsWith(subject, Subject("world", "structure", "removed")) ->
                   <<[type |-> "StructureRemoved",
                      structure_id |-> StrField(inner, "structure_id")]>>
              [] StartsWith(subject, Subject("world", "entity", "spawned")) ->
                   <<EntitySpawnedFrom(inner)>>
              [] StartsWith(subject, Subject("world", "entity", "removed")) ->
                   <<[type |-> "EntityRemoved",
                      entity_id |-> StrField(inner, "entity_id")]>>
              [] StartsWith(subject, Subject("world", "entity", "transform")) ->
                   <<[type |-> "EntityTransform",
                      entity_id |-> StrField(inner, "entity_id"),
                      x |-> FloatField(inner, "x"), y |-> FloatField(inner, "y"),
                      z |-> FloatField(inner, "z"),
                      rotation_y |-> FloatField(inner, "rotation_y"),
                      vx |-> FloatField(inner, "vx"),
                      vy |-> FloatField(inner, "vy"),
                      vz |-> FloatField(inner, "vz"), frame |-> frame,
                      dt |-> FloatField(inner, "dt")]>>
              [] StartsWith(subject, <<"world", "snapshot">>) ->
                   <<[type |-> "SnapshotBegin", frame |-> frame]>>
                     \o EventsFrom(Field(inner, "active_chunks", <<>>), "chunk")
                     \o EventsFrom(Field(inner, "structures", <<>>), "structure")
                     \o EventsFrom(Field(inner, "entities", <<>>), "entity")
                     \o <<[type |-> "SnapshotEnd"]>>
              [] OTHER -> <<>>

\* The chunk the server announces.
AnnouncedChunk ==
    [chunk_id |-> "terrain.0.0", cx |-> 0, cy |-> 0, seed |-> 42, lod |-> 0,
     chunk_size |-> 2]

\* Messages the bus delivers on world.>: an activation in its envelope, a
\* snapshot of one chunk in its envelope, and a payload that is not JSON.
BusMessages ==
    { [subject |-> Subject("world", "chunk", "activated"),
       json |-> Json([session |-> "default", frame |-> 1,
                      payload |-> AnnouncedChunk])],
      [subject |-> <<"world", "snapshot">>,
       json |-> Json([session |-> "default", frame |-> 3,
                      payload |-> [active_chunks |-> <<AnnouncedChunk>>,
                                   structures |-> <<>>,
                                   entities |-> <<>>]])],
      [subject |-> Subject("world", "entity", "transform"), json |-> BadJson] }

\* WorldEvent::Connected / WorldEvent::Disconnected of the bridge.
Connected ==
    [type |-> "Connected", session |-> ClientSession,
     participant_id |-> ClientId, frame |-> 0]
Disconnected(reason) == [type |-> "Disconnected", reason |-> reason]

\* What the bridge hands to the transport: `ok` tells whether it went out.
Pub(subject, payload, ok) ==
    [op |-> "PUB", subject |-> subject, payload |-> payload, ok |-> ok]
Sub(subject, ok) ==
    [op |-> "SUB", subject |-> subject, payload |-> EmptyMap, ok |-> ok]
Control(op, ok) ==
    [op |-> op, subject |-> <<>>, payload |-> EmptyMap, ok |-> ok]

\* json!({"id": participant_id, "x": 0.0, "y": 0.0, "z": 0.0})
JoinPayload(id) == [id |-> id, x |-> 0, y |-> 0, z |-> 0]

\* The intents the application may queue besides Disconnect.
Intents == {[type |-> "Teleport", x |-> 1, y |-> 2, z |-> 3]}
DisconnectIntent == [type |-> "Disconnect"]

\* intent_to_bus: subject and payload of an intent.
IntentToBus(participant_id, intent) ==
    CASE intent.type = "Teleport" ->
           [subject |-> <<"intent", "teleport">>,
            payload |-> [id |-> participant_id, x |-> intent.x,
                         y |-> intent.y, z |-> intent.z]]
      [] intent.type = "Disconnect" ->
           [subject |-> Subject("world", "participant", "leave"),
            payload |-> [id |-> participant_id]]

\* Sender::try_send on the bounded event channel: the event is dropped when
\* the channel is full or its receiver is gone.
TrySend(queue, ev, receiver_alive) ==
    IF receiver_alive /\ Len(queue) < EventBuffer THEN Append(queue, ev)
    ELSE queue

\* try_send of every event of evs, in order.
RECURSIVE TrySendAll(_, _, _)
TrySendAll(queue, evs, receiver_alive) ==
    IF evs = <<>> THEN queue
    ELSE TrySendAll(TrySend(queue, Head(evs), receiver_alive), Tail(evs),
                    receiver_alive)

\* BusHandle::send_intent: try_send on the bounded intent channel.
TrySendIntent(queue, intent, receiver_alive) ==
    IF receiver_alive /\ Len(queue) < IntentBuffer THEN Append(queue, intent)
    ELSE queue

\* The publications of the drained intents, in order.
PublishIntents(queue, ok) ==
    [i \in 1..Len(queue) |->
        Pub(IntentToBus(ClientId, queue[i]).subject,
            IntentToBus(ClientId, queue[i]).payload, ok)]

\* The native bridge thread is alive and holds its intent receiver.
NativeBridgeAlive == bridge_pc # "exited"

\* run_bridge: async_nats::connect returns.  On an error a Disconnected is
\* offered to the channel and the task ends.
NativeConnect ==
    /\ mirror_kind = "native"
    /\ bridge_pc = "connecting"
    /\ \/ /\ bridge_pc' = "announcing"
          /\ UNCHANGED event_queue
       \/ /\ bridge_pc' = "exited"
          /\ event_queue' = TrySend(event_queue,
                                    Disconnected("NATS connect failed"),
                                    mirror_handle)
    /\ UNCHANGED <<server_vars, apart_vars, mirror_vars, ws_state, incoming, intent_queue,
                   wire, bridge_calls, user_disconnected>>

\* run_bridge: the join is published, its result ignored, and Connected is
\* offered to the channel.
NativeAnnounce ==
    /\ mirror_kind = "native"
    /\ bridge_pc = "announcing"
    /\ wire' = Append(wire, Pub(Subject("world", "participant", "join"),
                                JoinPayload(ClientId), TRUE))
    /\ event_queue' = TrySend(event_queue, Connected, mirror_handle)
    /\ bridge_pc' = "subscribing"
    /\ UNCHANGED <<server_vars, apart_vars, mirror_vars, ws_state, incoming, intent_queue,
                   bridge_calls, user_disconnected>>

\* run_bridge: nc.subscribe("world.>") returns.  On an error the task ends.
NativeSubscribe ==
    /\ mirror_kind = "native"
    /\ bridge_pc = "subscribing"
    /\ \E ok \in BOOLEAN :
          /\ wire' = Append(wire, Sub(<<"world", ">">>, ok))
          /\ bridge_pc' = IF ok THEN "running" ELSE "exited"
    /\ UNCHANGED <<server_vars, apart_vars, mirror_vars, ws_state, incoming, event_queue,
                   intent_queue, bridge_calls, user_disconnected>>

\* run_bridge main loop: the select! waits on world_sub.next() and on a new
\* poll_intents future, whose first step is an 8 ms sleep.  A message becomes
\* ready before the sleep is over: the inbound arm is the one that completes.
\* The bus owes no pause between its messages, so this step is not bounded.
NativeMessageReady ==
    /\ mirror_kind = "native"
    /\ bridge_pc = "running"
    /\ bridge_pc' = "message"
    /\ UNCHANGED <<server_vars, apart_vars, mirror_vars, ws_state, incoming,
                   event_queue, intent_queue, wire, bridge_calls,
                   user_disconnected>>

\* run_bridge main loop, inbound arm: one bus message is parsed and each of
\* its events offered to the channel; the poll_intents future of this round
\* is dropped with its sleep, and the next round starts a new one.  Beyond
\* MaxMessages messages only those that yield no event keep arriving.
NativeReceive(msg) ==
    /\ mirror_kind = "native"
    /\ bridge_pc = "message"
    /\ \/ bridge_calls.messages < MaxMessages
       \/ ParseBusMessage(msg.subject, msg.json) = <<>>
    /\ bridge_calls' = [bridge_calls EXCEPT
                           !.messages = IF @ < MaxMessages THEN @ + 1 ELSE @]
    /\ event_queue' = TrySendAll(event_queue,
                                 ParseBusMessage(msg.subject, msg.json),
                                 mirror_handle)
    /\ bridge_pc' = "running"
    /\ UNCHANGED <<server_vars, apart_vars, mirror_vars, ws_state, incoming,
                   intent_queue, wire, user_disconnected>>

\* run_bridge main loop: the subscription ends (next() is None), the loop
\* breaks, a Disconnected is offered to the channel and the task ends.
NativeSubscriptionEnded ==
    /\ mirror_kind = "native"
    /\ bridge_pc = "running"
    /\ event_queue' = TrySend(event_queue,
                              Disconnected("server closed connection"),
                              mirror_handle)
    /\ bridge_pc' = "exited"
    /\ UNCHANGED <<server_vars, apart_vars, mirror_vars, ws_state, incoming, intent_queue,
                   wire, bridge_calls, user_disconnected>>

\* run_bridge main loop, outbound arm (poll_intents): no message became
\* ready during the 8 ms sleep, so the sleep completes, the intent channel is
\* drained and every intent published.
NativePollIntents ==
    /\ mirror_kind = "native"
    /\ bridge_pc = "running"
    /\ intent_queue # <<>>
    /\ wire' = wire \o PublishIntents(intent_queue, TRUE)
    /\ intent_queue' = <<>>
    /\ UNCHANGED <<server_vars, apart_vars, mirror_vars, bridge_pc, ws_state, incoming,
                   event_queue, bridge_calls, user_disconnected>>

\* The node after the events are applied one by one, for every outcome:
\* nodes is a set of [cache, handle, log].
RECURSIVE ApplyAll(_, _, _)
ApplyAll(kind, nodes, evs) ==
    IF evs = <<>> THEN nodes
    ELSE ApplyAll(kind,
                  UNION {{[cache |-> o.cache, handle |-> o.handle,
                           log |-> Append(n.log, [event |-> Head(evs),
                                                  signals |-> o.signals])] :
                            o \in OutcomesOf(kind, n.cache, n.handle,
                                             Head(evs))} : n \in nodes},
                  Tail(evs))

\* JanetWorldClient::process (native): BusHandle::poll drains the channel,
\* then every drained event is applied.
Process ==
    /\ mirror_kind = "native"
    /\ mirror_handle
    /\ event_queue # <<>>
    /\ event_queue' = <<>>
    /\ \E n \in ApplyAll("native",
                         {[cache |-> mirror_cache, handle |-> mirror_handle,
                           log |-> mirror_log]}, event_queue) :
          /\ mirror_cache' = n.cache
          /\ mirror_handle' = n.handle
          /\ mirror_log' = n.log
    /\ UNCHANGED <<server_vars, apart_vars, mirror_kind, bridge_pc, ws_state, incoming,
                   intent_queue, wire, bridge_calls, user_disconnected>>

\* An intent method of the native node (teleport_to): send_intent while a
\* handle is held.
SendIntent(intent) ==
    /\ mirror_kind = "native"
    /\ mirror_handle
    /\ bridge_calls.intents < MaxIntents
    /\ bridge_calls' = [bridge_calls EXCEPT !.intents = @ + 1]
    /\ intent_queue' = TrySendIntent(intent_queue, intent, NativeBridgeAlive)
    /\ UNCHANGED <<server_vars, apart_vars, mirror_vars, bridge_pc, ws_state, incoming,
                   event_queue, wire, user_disconnected>>

\* What a voluntary disconnect leaves in the log of the node.
DisconnectCall ==
    [event |-> [type |-> "DisconnectCall"],
     signals |-> <<Signal("connection_state_changed", <<"disconnected">>)>>]

\* JanetWorldClient::disconnect_from_world, called while connected: the
\* Disconnect intent is offered to the channel, the handle dropped, the
\* cache cleared.
DisconnectFromWorld ==
    /\ mirror_kind = "native"
    /\ mirror_handle
    /\ intent_queue' = TrySendIntent(intent_queue, DisconnectIntent,
                                     NativeBridgeAlive)
    /\ mirror_handle' = FALSE
    /\ mirror_cache' = Clear(mirror_cache)
    /\ mirror_log' = Append(mirror_log, DisconnectCall)
    /\ user_disconnected' = TRUE
    /\ UNCHANGED <<server_vars, apart_vars, mirror_kind, bridge_pc, ws_state, incoming,
                   event_queue, wire, bridge_calls>>

\* The frames the NATS server sends over the WebSocket, as the operations
\* parse_frame makes of them.
Info == [op |-> "INFO"]
Ping == [op |-> "PING"]
Msg(m) == [op |-> "MSG", subject |-> m.subject, json |-> m.json]
Frames == {Info, Ping} \cup {Msg(m) : m \in BusMessages}

\* The JS closures are registered: the BridgeHandle has not been dropped.
ClosuresSet == mirror_handle

\* WebSocket::send_with_str delivers: the socket is open and close() was not
\* called on it (Drop of the BridgeHandle).
SocketSends == ws_state.ws_open /\ ~ws_state.ws_closed /\ mirror_handle

\* The bridge loop's view while it processes the operations of its frames.
LoopState(subscribed, queue, sent) ==
    [subscribed |-> subscribed, queue |-> queue, sent |-> sent]

\* process_ops, arm Msg: each event is queued while fewer than 1024 are.
RECURSIVE PushWhileRoom(_, _)
PushWhileRoom(queue, evs) ==
    IF evs = <<>> THEN queue
    ELSE PushWhileRoom(IF Len(queue) < EventBuffer
                       THEN Append(queue, Head(evs)) ELSE queue,
                       Tail(evs))

\* process_ops for one operation.  sub_ok: the SUB frame reached the server.
ProcessOp(st, op, sends, sub_ok) ==
    CASE op.op = "INFO" ->
           IF ~st.subscribed
           THEN LoopState(TRUE,
                          Append(st.queue, Connected),
                          st.sent \o <<Sub(<<"world", ">">>, sends /\ sub_ok),
                                       Pub(Subject("world", "participant",
                                                   "join"),
                                           JoinPayload(ClientId), sends)>>)
           ELSE st
      [] op.op = "PING" ->
           LoopState(st.subscribed, st.queue,
                     Append(st.sent, Control("PONG", sends)))
      [] op.op = "MSG" ->
           LoopState(st.subscribed,
                     PushWhileRoom(st.queue,
                                   ParseBusMessage(op.subject, op.json)),
                     st.sent)

\* process_ops over the drained frames, in order.
RECURSIVE ProcessOps(_, _, _, _)
ProcessOps(st, ops, sends, sub_ok) ==
    IF ops = <<>> THEN st
    ELSE ProcessOps(ProcessOp(st, Head(ops), sends, sub_ok), Tail(ops),
                    sends, sub_ok)

\* onopen: ws_open is set and the CONNECT frame sent.
OnOpen ==
    /\ mirror_kind = "browser"
    /\ ClosuresSet
    /\ ~ws_state.ws_open /\ ~ws_state.ws_closed
    /\ ws_state' = [ws_state EXCEPT !.ws_open = TRUE]
    /\ wire' = Append(wire, Control("CONNECT", TRUE))
    /\ UNCHANGED <<server_vars, apart_vars, mirror_vars, bridge_pc, incoming, event_queue,
                   intent_queue, bridge_calls, user_disconnected>>

\* The server holds a subscription of this client: a SUB reached it.
ServerSubscribed ==
    \E i \in 1..Len(wire) : wire[i].op = "SUB" /\ wire[i].ok

\* onmessage: the text frame is appended to State.incoming.  The server
\* sends MSG frames to its subscribers only.
OnMessage(frame) ==
    /\ mirror_kind = "browser"
    /\ ClosuresSet
    /\ ws_state.ws_open /\ ~ws_state.ws_closed
    /\ frame.op = "MSG" => ServerSubscribed
    /\ bridge_calls.messages < MaxMessages
    /\ bridge_calls' = [bridge_calls EXCEPT !.messages = @ + 1]
    /\ incoming' = Append(incoming, frame)
    /\ UNCHANGED <<server_vars, apart_vars, mirror_vars, bridge_pc, ws_state, event_queue,
                   intent_queue, wire, user_disconnected>>

\* onerror: ws_closed is set.
OnError ==
    /\ mirror_kind = "browser"
    /\ ClosuresSet
    /\ ~ws_state.ws_closed
    /\ ws_state' = [ws_state EXCEPT !.ws_closed = TRUE]
    /\ UNCHANGED <<server_vars, apart_vars, mirror_vars, bridge_pc, incoming, event_queue,
                   intent_queue, wire, bridge_calls, user_disconnected>>

\* onclose: ws_open is cleared and ws_closed set.
OnClose ==
    /\ mirror_kind = "browser"
    /\ ClosuresSet
    /\ ws_state.ws_open \/ ~ws_state.ws_closed
    /\ ws_state' = [ws_state EXCEPT !.ws_open = FALSE, !.ws_closed = TRUE]
    /\ UNCHANGED <<server_vars, apart_vars, mirror_vars, bridge_pc, incoming, event_queue,
                   intent_queue, wire, bridge_calls, user_disconnected>>

\* run_bridge_loop, one cycle after the 8 ms sleep: a closed socket queues
\* Disconnected and ends the loop; otherwise the incoming frames are
\* processed and the queued intents sent.
BridgeLoop ==
    /\ mirror_kind = "browser"
    /\ bridge_pc # "exited"
    /\ IF ws_state.ws_closed
       THEN /\ event_queue' = Append(event_queue,
                                     Disconnected("WebSocket closed"))
            /\ bridge_pc' = "exited"
            /\ UNCHANGED <<ws_state, incoming, intent_queue, wire>>
       ELSE \E sub_ok \in BOOLEAN :
              \E st \in {ProcessOps(LoopState(ws_state.subscribed,
                                              event_queue, wire),
                                    incoming, SocketSends, sub_ok)} :
                 /\ ws_state' = [ws_state EXCEPT !.subscribed = st.subscribed]
                 /\ event_queue' = st.queue
                 /\ wire' = st.sent \o PublishIntents(intent_queue,
                                                      SocketSends)
                 /\ incoming' = <<>>
                 /\ intent_queue' = <<>>
                 /\ bridge_pc' = "running"
    /\ UNCHANGED <<server_vars, apart_vars, mirror_vars, bridge_calls, user_disconnected>>

\* The first n elements of seq, and the rest.
Take(seq, n) == SubSeq(seq, 1, n)
Drop(seq, n) == SubSeq(seq, n + 1, Len(seq))

\* Variant: the first number, whatever the second.
MinTakingTheFirst(a, b) == a

\* usize::min
Min(a, b) == IF a <= b THEN a ELSE b

\* JanetWorldClient::poll (browser): up to 256 queued events are drained and
\* applied.
Poll ==
    /\ mirror_kind = "browser"
    /\ mirror_handle
    /\ event_queue # <<>>
    /\ \E n \in {Min(DrainLimit, Len(event_queue))} :
          /\ event_queue' = Drop(event_queue, n)
          /\ \E node \in ApplyAll("browser",
                                  {[cache |-> mirror_cache,
                                    handle |-> mirror_handle,
                                    log |-> mirror_log]},
                                  Take(event_queue, n)) :
                /\ mirror_cache' = node.cache
                /\ mirror_handle' = node.handle
                /\ mirror_log' = node.log
    /\ UNCHANGED <<server_vars, apart_vars, mirror_kind, bridge_pc, ws_state, incoming,
                   intent_queue, wire, bridge_calls, user_disconnected>>

\* An intent method of the browser client (teleport): publish_intent queues
\* the frame while a bridge is held.
QueueIntent(intent) ==
    /\ mirror_kind = "browser"
    /\ mirror_handle
    /\ bridge_calls.intents < MaxIntents
    /\ bridge_calls' = [bridge_calls EXCEPT !.intents = @ + 1]
    /\ intent_queue' = Append(intent_queue, intent)
    /\ UNCHANGED <<server_vars, apart_vars, mirror_vars, bridge_pc, ws_state, incoming,
                   event_queue, wire, user_disconnected>>

\* JanetWorldClient::disconnect (browser), called while connected: the
\* bridge handle is dropped, which closes the socket, and the cache cleared.
Disconnect ==
    /\ mirror_kind = "browser"
    /\ mirror_handle
    /\ mirror_handle' = FALSE
    /\ mirror_cache' = Clear(mirror_cache)
    /\ mirror_log' = Append(mirror_log, DisconnectCall)
    /\ user_disconnected' = TRUE
    /\ UNCHANGED <<server_vars, apart_vars, mirror_kind, bridge_pc, ws_state, incoming,
                   event_queue, intent_queue, wire, bridge_calls>>

\* A client that has just called connect_to_world() / connect(), beside a
\* server that is constructed and left alone.
BridgeInit ==
    /\ config = [cell_size |-> 2, activation_radius |-> 0]
    /\ world_terrain = "heightmap"
    /\ active_cells = {}
    /\ terrain_bodies = EmptyMap
    /\ cell_objects = EmptyMap
    /\ participant_positions = EmptyMap
    /\ tick_count = 0
    /\ sim_present = TRUE
    /\ sim_transforms = EmptyMap
    /\ sim_bodies = EmptyBag
    /\ faults = 0
    /\ tick_calls = 0
    /\ last_op = [id \in ParticipantIds |-> "none"]
    /\ retry = NoRetry
    /\ last = Idle
    /\ AgentNotStarted
    /\ mirror_cache = EmptyCache
    /\ mirror_handle = TRUE
    /\ mirror_log = <<>>
    /\ mirror_kind \in MirrorKinds
    /\ BridgeSpawned
    /\ ApartIdle

BridgeNext ==
    \/ NativeConnect
    \/ NativeAnnounce
    \/ NativeSubscribe
    \/ NativeMessageReady
    \/ \E msg \in BusMessages : NativeReceive(msg)
    \/ NativeSubscriptionEnded
    \/ NativePollIntents
    \/ Process
    \/ \E intent \in Intents : SendIntent(intent)
    \/ DisconnectFromWorld
    \/ OnOpen
    \/ \E frame \in Frames : OnMessage(frame)
    \/ OnError
    \/ OnClose
    \/ BridgeLoop
    \/ Poll
    \/ \E intent \in Intents : QueueIntent(intent)
    \/ Disconnect

BridgeSpec == BridgeInit /\ [][BridgeNext]_vars

\* The bridge task is scheduled by its runtime, its connect and subscribe
\* calls return, a ready message is taken by the inbound arm, the sleep of
\* poll_intents completes when no message gets ready before it, and the
\* mirror runs once per rendered frame; the bus, the socket and the
\* application owe nothing.
FairBridgeSpec ==
    /\ BridgeSpec
    /\ WF_vars(NativeConnect)
    /\ WF_vars(NativeAnnounce)
    /\ WF_vars(NativeSubscribe)
    /\ WF_vars(\E msg \in BusMessages : NativeReceive(msg))
    /\ WF_vars(NativePollIntents)
    /\ WF_vars(Process)
    /\ WF_vars(BridgeLoop)
    /\ WF_vars(Poll)

\* ========================================================================
\* The NATS text protocol of the browser client (clients/wasm/src/nats_ws.rs)
\* ========================================================================
\* A text is a sequence of characters, a character a one-character string or,
\* for the one that is not ASCII, its name.

MaxSubjectLen == 2
MaxPayloadLen == 3

SP == " "
CR == "\r"
LF == "\n"
EAcute == "e-acute"
CRLF == <<CR, LF>>

\* char::is_whitespace, over the characters of the model
Whitespace == {SP, CR, LF}

\* str::as_bytes: the UTF-8 encoding, one or two bytes per character here.
Utf8(ch) == IF ch = EAcute THEN <<"0xC3", "0xA9">> ELSE <<ch>>

RECURSIVE AsBytes(_)
AsBytes(text) ==
    IF text = <<>> THEN <<>> ELSE Utf8(Head(text)) \o AsBytes(Tail(text))

\* str::len: the length in bytes
ByteLen(text) == Len(AsBytes(text))

Digits == <<"0", "1", "2", "3", "4", "5", "6", "7", "8", "9">>

\* format!("{}", n) of an unsigned number
RECURSIVE Decimal(_)
Decimal(n) ==
    IF n < 10 THEN <<Digits[n + 1]>>
    ELSE Decimal(n \div 10) \o <<Digits[(n % 10) + 1]>>

\* str::parse::<usize>().ok().unwrap_or(0): the value of a non-empty run of
\* digits, 0 for anything else.
IsDigit(ch) == \E d \in 1..10 : Digits[d] = ch
DigitValue(ch) == (CHOOSE d \in 1..10 : Digits[d] = ch) - 1

RECURSIVE DigitsValue(_, _)
DigitsValue(token, acc) ==
    IF token = <<>> THEN acc
    ELSE DigitsValue(Tail(token), acc * 10 + DigitValue(Head(token)))

ParseOrZero(token) ==
    IF token # <<>> /\ \A i \in 1..Len(token) : IsDigit(token[i])
    THEN DigitsValue(token, 0)
    ELSE 0

\* str::split("\r\n"): the pieces between the non-overlapping occurrences of
\* CR LF, found from the left; `piece` is the piece being read.
RECURSIVE SplitCrLf(_, _)
SplitCrLf(text, piece) ==
    IF text = <<>> THEN <<piece>>
    ELSE IF StartsWith(text, CRLF)
    THEN <<piece>> \o SplitCrLf(SubSeq(text, 3, Len(text)), <<>>)
    ELSE SplitCrLf(Tail(text), Append(piece, Head(text)))

\* str::trim
RECURSIVE TrimStart(_)
TrimStart(text) ==
    IF text # <<>> /\ Head(text) \in Whitespace THEN TrimStart(Tail(text))
    ELSE text

RECURSIVE TrimEnd(_)
TrimEnd(text) ==
    IF text # <<>> /\ text[Len(text)] \in Whitespace
    THEN TrimEnd(SubSeq(text, 1, Len(text) - 1))
    ELSE text

Trim(text) == TrimEnd(TrimStart(text))

\* str::split_whitespace: the non-empty runs of characters that are not
\* whitespace; `token` is the run being read.
RECURSIVE SplitWhitespace(_, _)
SplitWhitespace(text, token) ==
    IF text = <<>> THEN (IF token = <<>> THEN <<>> ELSE <<token>>)
    ELSE IF Head(text) \in Whitespace
    THEN (IF token = <<>> THEN <<>> ELSE <<token>>)
         \o SplitWhitespace(Tail(text), <<>>)
    ELSE SplitWhitespace(Tail(text), Append(token, Head(text)))

\* The operations parse_frame produces (enum NatsOp).
InfoOp(json) == [op |-> "Info", subject |-> <<>>, text |-> json]
PingOp == [op |-> "Ping", subject |-> <<>>, text |-> <<>>]
OkOp == [op |-> "Ok", subject |-> <<>>, text |-> <<>>]
ErrOp(message) == [op |-> "Err", subject |-> <<>>, text |-> message]
MsgOp(subject, payload) == [op |-> "Msg", subject |-> subject, text |-> payload]

\* Variant: the declared length counts characters, not bytes.
PubFrameCountingChars(subject, payload) ==
    <<"P", "U", "B", SP>> \o subject \o <<SP>> \o Decimal(Len(payload))
        \o CRLF \o payload \o CRLF

\* pub_frame
PubFrame(subject, payload) ==
    <<"P", "U", "B", SP>> \o subject \o <<SP>> \o Decimal(ByteLen(payload))
        \o CRLF \o payload \o CRLF

\* The loop of parse_frame over the lines from the i-th on.
RECURSIVE ParseLines(_, _)
ParseLines(lines, i) ==
    IF i > Len(lines) THEN <<>>
    ELSE
      LET line == Trim(lines[i])
          parts == SplitWhitespace(line, <<>>)
      IN  IF line = <<>> THEN ParseLines(lines, i + 1)
          ELSE IF StartsWith(line, <<"I", "N", "F", "O", SP>>)
          THEN <<InfoOp(SubSeq(line, 6, Len(line)))>> \o ParseLines(lines, i + 1)
          ELSE IF line = <<"P", "I", "N", "G">>
          THEN <<PingOp>> \o ParseLines(lines, i + 1)
          ELSE IF line = <<"+", "O", "K">>
          THEN <<OkOp>> \o ParseLines(lines, i + 1)
          ELSE IF StartsWith(line, <<"-", "E", "R", "R", SP>>)
          THEN <<ErrOp(SubSeq(line, 6, Len(line)))>> \o ParseLines(lines, i + 1)
          ELSE IF StartsWith(line, <<"M", "S", "G", SP>>)
          THEN IF Len(parts) < 4 THEN ParseLines(lines, i + 1)
               ELSE IF i + 1 > Len(lines) THEN <<>>
               ELSE <<MsgOp(parts[2],
                            Take(AsBytes(lines[i + 1]),
                                 Min(ByteLen(lines[i + 1]),
                                     ParseOrZero(parts[Len(parts)]))))>>
                    \o ParseLines(lines, i + 2)
          ELSE ParseLines(lines, i + 1)

\* parse_frame
ParseFrame(text) == ParseLines(SplitCrLf(text, <<>>), 1)

\* What the server reads in a PUB frame: the declared length is the last
\* word of the first line.
DeclaredLength(frame) ==
    LET words == SplitWhitespace(SplitCrLf(frame, <<>>)[1], <<>>)
    IN  ParseOrZero(words[Len(words)])

\* The server's echo of a published message to a subscription:
\* "MSG <subject> <sid> <len>\r\n<payload>\r\n".
EchoFrame(subject, sid, len, payload) ==
    <<"M", "S", "G", SP>> \o subject \o <<SP>> \o Decimal(sid) \o <<SP>>
        \o Decimal(len) \o CRLF \o payload \o CRLF

\* All texts over an alphabet up to a length.
RECURSIVE Texts(_, _)
Texts(alphabet, n) ==
    IF n = 0 THEN {<<>>}
    ELSE Texts(alphabet, n - 1)
         \cup {Append(t, ch) : t \in Texts(alphabet, n - 1), ch \in alphabet}

Subjects == Texts({"a", ".", SP}, MaxSubjectLen)
Payloads == Texts({"a", SP, CR, LF, EAcute}, MaxPayloadLen)
Sids == {1, 42}

\* A caller hands a subject and a payload to pub_frame.
PubFrameCall ==
    /\ frame_out.kind = "none"
    /\ frame_out' = [kind |-> "built",
                     pub |-> PubFrame(frame_in.subject, frame_in.payload),
                     ops |-> <<>>]
    /\ UNCHANGED <<server_vars, client_vars, terrain_vars, parser_vars, lock_vars,
                   frame_in>>

\* The server echoes the published message to the caller's subscription and
\* the caller hands the text to parse_frame.
ParseFrameCall ==
    /\ frame_out.kind = "built"
    /\ frame_out' = [kind |-> "parsed",
                     pub |-> frame_out.pub,
                     ops |-> ParseFrame(EchoFrame(frame_in.subject, frame_in.sid,
                                                  DeclaredLength(frame_out.pub),
                                                  frame_in.payload))]
    /\ UNCHANGED <<server_vars, client_vars, terrain_vars, parser_vars, lock_vars,
                   frame_in>>

\* The server and the clients, constructed and left alone.
OthersLeftAlone ==
    /\ config = [cell_size |-> 2, activation_radius |-> 0]
    /\ world_terrain = "heightmap"
    /\ active_cells = {}
    /\ terrain_bodies = EmptyMap
    /\ cell_objects = EmptyMap
    /\ participant_positions = EmptyMap
    /\ tick_count = 0
    /\ sim_present = TRUE
    /\ sim_transforms = EmptyMap
    /\ sim_bodies = EmptyBag
    /\ faults = 0
    /\ tick_calls = 0
    /\ last_op = [id \in ParticipantIds |-> "none"]
    /\ retry = NoRetry
    /\ last = Idle
    /\ AgentNotStarted
    /\ ClientNotStarted

\* Any subject, payload and subscription id within the bounds.
WireInit ==
    /\ OthersLeftAlone
    /\ TerrainIdle
    /\ ParserIdle
    /\ LocksIdle
    /\ frame_in \in [kind : {"input"}, subject : Subjects, payload : Payloads,
                     sid : Sids]
    /\ frame_out = NoFrame

WireNext ==
    \/ PubFrameCall
    \/ ParseFrameCall

WireSpec == WireInit /\ [][WireNext]_vars

\* ------------------------------------------------------------------------
\* Frames that carry several operations
\* ------------------------------------------------------------------------
\* What the server puts into one WebSocket frame: protocol lines, each ended
\* by CR LF.  A MSG is a header line "MSG <subject> <sid> [reply] <len>" and a
\* payload line; "Short" is a MSG header that lacks a word, "Empty" an empty
\* line.

MaxOps == 3

ServerItem(op, subject, reply, declared, text) ==
    [op |-> op, subject |-> subject, reply |-> reply, declared |-> declared,
     text |-> text]

PingText == <<"P", "I", "N", "G">>

ItemPayloads == {<<>>, PingText, <<"a", EAcute>>, <<SP, "a">>}
DeclaredLengths == {0, 2, 9}

ServerItems ==
    {ServerItem("Info", <<>>, <<>>, 0, <<"{", "}">>),
     ServerItem("Ping", <<>>, <<>>, 0, <<>>),
     ServerItem("Ok", <<>>, <<>>, 0, <<>>),
     ServerItem("Err", <<>>, <<>>, 0, <<"x">>),
     ServerItem("Empty", <<>>, <<>>, 0, <<>>),
     ServerItem("Short", <<"a">>, <<>>, 4, <<>>),
     ServerItem("Msg", <<"a">>, <<"r">>, 4, PingText)}
    \cup {ServerItem("Msg", <<"a">>, <<>>, n, payload) :
              n \in DeclaredLengths, payload \in ItemPayloads}

\* All sequences of server items up to a length.
RECURSIVE ItemSeqs(_)
ItemSeqs(n) ==
    IF n = 0 THEN {<<>>}
    ELSE ItemSeqs(n - 1)
         \cup {Append(items, item) : items \in ItemSeqs(n - 1),
                                     item \in ServerItems}

\* The text of one item as the server writes it.
ItemText(item) ==
    CASE item.op = "Info" -> <<"I", "N", "F", "O", SP>> \o item.text \o CRLF
      [] item.op = "Ping" -> PingText \o CRLF
      [] item.op = "Ok" -> <<"+", "O", "K">> \o CRLF
      [] item.op = "Err" -> <<"-", "E", "R", "R", SP>> \o item.text \o CRLF
      [] item.op = "Empty" -> CRLF
      [] item.op = "Short" ->
            <<"M", "S", "G", SP>> \o item.subject \o <<SP>>
                \o Decimal(item.declared) \o CRLF
      [] item.op = "Msg" ->
            <<"M", "S", "G", SP>> \o item.subject \o <<SP>> \o Decimal(1)
                \o (IF item.reply = <<>> THEN <<>> ELSE <<SP>> \o item.reply)
                \o <<SP>> \o Decimal(item.declared) \o CRLF
                \o item.text \o CRLF

\* The text of a whole frame.
RECURSIVE FrameText(_)
FrameText(items) ==
    IF items = <<>> THEN <<>>
    ELSE ItemText(Head(items)) \o FrameText(Tail(items))

\* The socket's message callback hands the text of a frame to parse_frame.
ReceiveFrame ==
    /\ frame_in.kind = "frame"
    /\ frame_out.kind = "none"
    /\ frame_out' = [kind |-> "parsed",
                     pub |-> FrameText(frame_in.items),
                     ops |-> ParseFrame(FrameText(frame_in.items))]
    /\ UNCHANGED <<server_vars, client_vars, terrain_vars, parser_vars, lock_vars,
                   frame_in>>

\* Any frame of up to MaxOps items.
FrameInit ==
    /\ OthersLeftAlone
    /\ TerrainIdle
    /\ ParserIdle
    /\ LocksIdle
    /\ frame_in \in [kind : {"frame"}, items : ItemSeqs(MaxOps)]
    /\ frame_out = NoFrame

FrameNext == ReceiveFrame

FrameSpec == FrameInit /\ [][FrameNext]_vars


\* ========================================================================
\* The heightmap terrain and its chunk cache (src/terrain.rs)
\* ========================================================================
\* Lengths are whole numbers; the chunk sizes are multiples of the
\* resolutions, so that every cell size and every division by it is exact.

MaxCalls == 4

Seeds == {7, 42}
ChunkSizes == {8}
BaseResolutions == {8}
Threads == {"t1", "t2"}
ChunkXs == {-1, 0}
ChunkYs == {0}
Lods == {0, 1}
SampleXs == {-3, 5}
SampleYs == {2}
EvictCalls == {[cx |-> 0, cy |-> 0, max |-> 0], [cx |-> 0, cy |-> 2, max |-> 1]}

\* HeightmapTerrain::new: any of the seeds, sizes and resolutions, and an
\* empty cache; no thread is inside a call.
TerrainConstructed ==
    /\ heightmap \in [seed : Seeds, chunk_size : ChunkSizes,
                    base_resolution : BaseResolutions]
    /\ chunk_cache = {}
    /\ chunk_heap = <<>>
    /\ cache_lock = {}
    /\ thread = [t \in Threads |-> IdleThread]
    /\ terrain_log = [calls |-> 0, evictions |-> 0, returned |-> {},
                      heights |-> {}]

\* chunk_coord: floor(x / chunk_size), floor(y / chunk_size)
ChunkCoord(t, x, y) == [cx |-> x \div t.chunk_size, cy |-> y \div t.chunk_size]

\* Variant: the cache is keyed by the chunk coordinates alone.
CacheKeyWithoutLod(cx, cy, lod) == <<cx, cy, 0>>

\* The key of the cache map
CacheKey(cx, cy, lod) == <<cx, cy, lod>>

\* cache.entry((cx, cy, lod)) of a call
KeyOf(call) == CacheKey(call.cx, call.cy, call.lod)

\* usize >> u8
ShiftRight(n, k) == n \div (2 ^ k)

\* sample_noise: a value determined by the seed and the sample point; the
\* value stands for itself, so two samples are equal only where the seed
\* and the point are.
SampleNoise(t, x, y) == <<t.seed, x, y>>

\* generate_chunk
GenerateChunk(t, cx, cy, lod) ==
    LET resolution == Max(ShiftRight(t.base_resolution, lod), 4)
        cell_size == t.chunk_size \div resolution
        world_origin_x == cx * t.chunk_size
        world_origin_y == cy * t.chunk_size
    IN  [heights |->
            [i \in 1..(resolution * resolution) |->
                SampleNoise(t,
                            world_origin_x + ((i - 1) % resolution) * cell_size,
                            world_origin_y + ((i - 1) \div resolution) * cell_size)],
         resolution |-> resolution,
         world_origin_x |-> world_origin_x,
         world_origin_y |-> world_origin_y,
         cell_size |-> cell_size]

\* i32::abs
Abs(n) == IF n < 0 THEN 0 - n ELSE n

\* f32::clamp
Clamp(v, lo, hi) == IF v < lo THEN lo ELSE IF v > hi THEN hi ELSE v

\* height_at, once it holds the chunk: floor(clamp(local / cell_size, 0,
\* resolution - 1)) is the clamped floor, the limits being whole numbers.
HeightIn(chunk, x, y) ==
    LET ix == Clamp((x - chunk.world_origin_x) \div chunk.cell_size,
                    0, chunk.resolution - 1)
        iy == Clamp((y - chunk.world_origin_y) \div chunk.cell_size,
                    0, chunk.resolution - 1)
    IN  chunk.heights[iy * chunk.resolution + ix + 1]

\* HashMap: the entries of a key, the handle stored under it, insertion
\* (which replaces the entry of the key).
EntriesOf(cache, key) == {e \in cache : e.key = key}
Occupied(cache, key) == EntriesOf(cache, key) # {}
HandleOf(cache, key) == (CHOOSE e \in cache : e.key = key).handle
Insert(cache, key, handle) ==
    (cache \ EntriesOf(cache, key)) \cup {[key |-> key, handle |-> handle]}

\* Variant: only the distance along x decides.
RetainedAlongX(key, origin_cx, origin_cy, max_chunks) ==
    Abs(key[1] - origin_cx) <= max_chunks

\* The closure of cache.retain in evict_distant_chunks
Retained(key, origin_cx, origin_cy, max_chunks) ==
    /\ Abs(key[1] - origin_cx) <= max_chunks
    /\ Abs(key[2] - origin_cy) <= max_chunks

\* A thread calls get_or_generate_chunk and reaches self.cache.write().
CallGetOrGenerateChunk(t, cx, cy, lod) ==
    /\ thread[t].pc = "idle"
    /\ terrain_log.calls < MaxCalls
    /\ thread' = [thread EXCEPT ![t] =
                    [pc |-> "waiting", op |-> "get_or_generate_chunk",
                     cx |-> cx, cy |-> cy, lod |-> lod, x |-> 0, y |-> 0,
                     max |-> 0, handle |-> 0]]
    /\ terrain_log' = [terrain_log EXCEPT !.calls = @ + 1]
    /\ UNCHANGED <<server_vars, client_vars, codec_vars, parser_vars, lock_vars,
                   heightmap, chunk_cache,
                   chunk_heap, cache_lock>>

\* A thread calls height_at: the chunk of the point at LOD 0 is asked for.
CallHeightAt(t, x, y) ==
    /\ thread[t].pc = "idle"
    /\ terrain_log.calls < MaxCalls
    /\ thread' = [thread EXCEPT ![t] =
                    [pc |-> "waiting", op |-> "height_at",
                     cx |-> ChunkCoord(heightmap, x, y).cx,
                     cy |-> ChunkCoord(heightmap, x, y).cy, lod |-> 0,
                     x |-> x, y |-> y, max |-> 0, handle |-> 0]]
    /\ terrain_log' = [terrain_log EXCEPT !.calls = @ + 1]
    /\ UNCHANGED <<server_vars, client_vars, codec_vars, parser_vars, lock_vars,
                   heightmap, chunk_cache,
                   chunk_heap, cache_lock>>

\* A thread calls evict_distant_chunks and reaches self.cache.write().
CallEvictDistantChunks(t, call) ==
    /\ thread[t].pc = "idle"
    /\ terrain_log.calls < MaxCalls
    /\ thread' = [thread EXCEPT ![t] =
                    [pc |-> "waiting", op |-> "evict_distant_chunks",
                     cx |-> call.cx, cy |-> call.cy, lod |-> 0, x |-> 0,
                     y |-> 0, max |-> call.max, handle |-> 0]]
    /\ terrain_log' = [terrain_log EXCEPT !.calls = @ + 1]
    /\ UNCHANGED <<server_vars, client_vars, codec_vars, parser_vars, lock_vars,
                   heightmap, chunk_cache,
                   chunk_heap, cache_lock>>

\* Variant: the guard is handed out whoever holds one.
WriteGrantedAlways(lock) == TRUE

\* RwLock::write is granted when no other guard is alive.
WriteGranted(lock) == lock = {}

\* self.cache.write() returns the guard.
AcquireWrite(t) ==
    /\ thread[t].pc = "waiting"
    /\ WriteGranted(cache_lock)
    /\ cache_lock' = cache_lock \cup {t}
    /\ thread' = [thread EXCEPT ![t].pc = "locked"]
    /\ UNCHANGED <<server_vars, client_vars, codec_vars, parser_vars, lock_vars,
                   heightmap, chunk_cache,
                   chunk_heap, terrain_log>>

\* get_or_generate_chunk: cache.entry(key), and the Occupied arm.
LookUpEntry(t) ==
    /\ thread[t].pc = "locked"
    /\ thread[t].op \in {"get_or_generate_chunk", "height_at"}
    /\ thread' = [thread EXCEPT ![t] =
                    IF Occupied(chunk_cache, KeyOf(thread[t]))
                    THEN [@ EXCEPT !.pc = "unlocking",
                                   !.handle = HandleOf(chunk_cache, KeyOf(thread[t]))]
                    ELSE [@ EXCEPT !.pc = "vacant"]]
    /\ UNCHANGED <<server_vars, client_vars, codec_vars, parser_vars, lock_vars,
                   heightmap, chunk_cache,
                   chunk_heap, cache_lock, terrain_log>>

\* get_or_generate_chunk, the Vacant arm: Arc::new(generate_chunk(..)) and
\* the insertion of its clone.  A handle is the place of the chunk among the
\* allocations.
InsertGenerated(t) ==
    /\ thread[t].pc = "vacant"
    /\ chunk_heap' = Append(chunk_heap,
                            [key |-> KeyOf(thread[t]),
                             chunk |-> GenerateChunk(heightmap, thread[t].cx,
                                                     thread[t].cy, thread[t].lod)])
    /\ chunk_cache' = Insert(chunk_cache, KeyOf(thread[t]), Len(chunk_heap) + 1)
    /\ thread' = [thread EXCEPT ![t].pc = "unlocking",
                                ![t].handle = Len(chunk_heap) + 1]
    /\ UNCHANGED <<server_vars, client_vars, codec_vars, parser_vars, lock_vars,
                   heightmap, cache_lock,
                   terrain_log>>

\* evict_distant_chunks: cache.retain(..)
Retain(t) ==
    /\ thread[t].pc = "locked"
    /\ thread[t].op = "evict_distant_chunks"
    /\ chunk_cache' = {e \in chunk_cache :
                          Retained(e.key, thread[t].cx, thread[t].cy,
                                   thread[t].max)}
    /\ thread' = [thread EXCEPT ![t].pc = "unlocking"]
    /\ terrain_log' = [terrain_log EXCEPT !.evictions = @ + 1]
    /\ UNCHANGED <<server_vars, client_vars, codec_vars, parser_vars, lock_vars,
                   heightmap, chunk_heap,
                   cache_lock>>

\* The guard is dropped where the function returns: get_or_generate_chunk
\* hands its handle to the caller, which height_at is itself.
ReleaseWrite(t) ==
    /\ thread[t].pc = "unlocking"
    /\ cache_lock' = cache_lock \ {t}
    /\ thread' = [thread EXCEPT ![t] =
                    IF thread[t].op = "height_at"
                    THEN [@ EXCEPT !.pc = "reading"]
                    ELSE IdleThread]
    /\ terrain_log' =
          IF thread[t].op = "get_or_generate_chunk"
          THEN [terrain_log EXCEPT !.returned =
                    @ \cup {[thread |-> t, key |-> KeyOf(thread[t]),
                             handle |-> thread[t].handle,
                             contended |-> \E u \in Threads \ {t} :
                                              /\ thread[u].pc = "waiting"
                                              /\ thread[u].op = thread[t].op
                                              /\ KeyOf(thread[u]) = KeyOf(thread[t])]}]
          ELSE terrain_log
    /\ UNCHANGED <<server_vars, client_vars, codec_vars, parser_vars, lock_vars,
                   heightmap, chunk_cache,
                   chunk_heap>>

\* height_at reads the sample of the point in the chunk it was handed.
ReadHeight(t) ==
    /\ thread[t].pc = "reading"
    /\ terrain_log' = [terrain_log EXCEPT !.heights =
                          @ \cup {[x |-> thread[t].x, y |-> thread[t].y,
                                   handle |-> thread[t].handle,
                                   height |-> HeightIn(chunk_heap[thread[t].handle].chunk,
                                                       thread[t].x, thread[t].y)]}]
    /\ thread' = [thread EXCEPT ![t] = IdleThread]
    /\ UNCHANGED <<server_vars, client_vars, codec_vars, parser_vars, lock_vars,
                   heightmap, chunk_cache,
                   chunk_heap, cache_lock>>

TerrainInit ==
    /\ OthersLeftAlone
    /\ CodecIdle
    /\ ParserIdle
    /\ LocksIdle
    /\ TerrainConstructed

TerrainNext ==
    \/ \E t \in Threads, cx \in ChunkXs, cy \in ChunkYs, lod \in Lods :
          CallGetOrGenerateChunk(t, cx, cy, lod)
    \/ \E t \in Threads, x \in SampleXs, y \in SampleYs : CallHeightAt(t, x, y)
    \/ \E t \in Threads, call \in EvictCalls : CallEvictDistantChunks(t, call)
    \/ \E t \in Threads : AcquireWrite(t)
    \/ \E t \in Threads : LookUpEntry(t)
    \/ \E t \in Threads : InsertGenerated(t)
    \/ \E t \in Threads : Retain(t)
    \/ \E t \in Threads : ReleaseWrite(t)
    \/ \E t \in Threads : ReadHeight(t)

TerrainSpec == TerrainInit /\ [][TerrainNext]_vars


\* ========================================================================
\* The locks of the server: parking_lot::Mutex<WorldService> (bus.rs) and
\* parking_lot::RwLock<PhysicsRegistry> (service.rs)
\* ========================================================================
\* Four tasks: the tick task and a command handler of the bus agent, and two
\* other holders of the Arc<RwLock<PhysicsRegistry>> that bin/world.rs shares
\* with the service: one that writes ("stepper") and one that reads.  What a
\* task does under a lock is left out; which lock it asks for, from where and
\* while holding what, is kept.

\* Cells one loop of tick() may visit.
MaxCells == 2

Tasks == {"tick", "handler", "stepper", "reader"}

\* A lock section of tick(): the place that asks for a guard of the registry
\* and the kind of guard.
Section(site, mode) == [site |-> site, mode |-> mode]

\* sync_positions_from_registry: one read guard, held to the end of the
\* function.
SyncSections == <<Section("sync_positions_from_registry", "read")>>

\* deactivate_cell: a write guard inside `if let Some(id) =
\* self.terrain_bodies.remove(coord)`, dropped at the end of that block, and
\* another inside `if let Some(object_ids) = self.cell_objects.remove(coord)`.
DeactivateSections(cell) ==
    (IF cell.terrain_body
     THEN <<Section("deactivate_cell: terrain body", "write")>> ELSE <<>>)
    \o (IF cell.objects
        THEN <<Section("deactivate_cell: cell objects", "write")>> ELSE <<>>)

\* activate_cell of a cell that is not active: one write guard, held to the
\* return (Ok or Err).
ActivateSections == <<Section("activate_cell", "write")>>

RECURSIVE SectionsOfAll(_)
SectionsOfAll(cells) ==
    IF cells = <<>> THEN <<>>
    ELSE DeactivateSections(Head(cells)) \o SectionsOfAll(Tail(cells))

RECURSIVE Repeat(_, _)
Repeat(seq, n) == IF n = 0 THEN <<>> ELSE seq \o Repeat(seq, n - 1)

\* tick(): the sync, the deactivation loop, the activation loop; a loop that
\* returns early with `?` leaves the later sections out.
TickSections(deactivated, activations) ==
    SyncSections \o SectionsOfAll(deactivated) \o Repeat(ActivateSections, activations)

\* The cells a deactivation loop may visit: with or without a terrain body,
\* with or without cell objects.
DeactivatedCells == [terrain_body : BOOLEAN, objects : BOOLEAN]

RECURSIVE CellSeqs(_)
CellSeqs(n) ==
    IF n = 0 THEN {<<>>}
    ELSE CellSeqs(n - 1)
         \cup {Append(cells, c) : cells \in CellSeqs(n - 1), c \in DeactivatedCells}

\* The tasks holding a guard of the registry.
GuardHolders(lock) == lock.readers \cup (IF lock.writer = "none" THEN {} ELSE {lock.writer})

\* RwLock::read / RwLock::write return when the guard can be handed out; a
\* task that already holds a guard is not told apart from any other holder.
Granted(lock, mode) ==
    IF mode = "write" THEN lock.writer = "none" /\ lock.readers = {}
    ELSE lock.writer = "none"

\* The lock with a guard of the mode handed to t.
WithGuard(lock, t, mode) ==
    IF mode = "write" THEN [lock EXCEPT !.writer = t]
    ELSE [lock EXCEPT !.readers = @ \cup {t}]

\* Variant: the guard of a section lives on into the next one.
GuardKeptAcrossSections(lock, t) == lock

\* The guard of t goes out of scope: end of the block or of the function.
GuardOutOfScope(lock, t) ==
    [writer |-> IF lock.writer = t THEN "none" ELSE lock.writer,
     readers |-> lock.readers \ {t}]

\* The tick task (timer fired) or a command handler reaches
\* service.lock(); the tick that follows has its lock sections ahead.
CallLock(t) ==
    /\ t \in {"tick", "handler"}
    /\ task[t].pc = "idle"
    /\ \E todo \in (IF t = "tick"
                    THEN {TickSections(cells, n) :
                            cells \in CellSeqs(MaxCells), n \in 0..MaxCells}
                    ELSE {<<>>}) :
          task' = [task EXCEPT ![t] = [pc |-> "lock", todo |-> todo]]
    /\ UNCHANGED <<server_vars, client_vars, codec_vars, terrain_vars,
                   parser_vars, service_mutex, registry_lock>>

\* Mutex::lock returns the guard.
LockReturns(t) ==
    /\ task[t].pc = "lock"
    /\ service_mutex = "none"
    /\ service_mutex' = t
    /\ task' = [task EXCEPT ![t].pc = "service"]
    /\ UNCHANGED <<server_vars, client_vars, codec_vars, terrain_vars,
                   parser_vars, registry_lock>>

\* Under the guard of the service, tick() reaches the next
\* physics_registry.read() / .write(); another holder of the registry reaches
\* its own.
CallReadOrWrite(t) ==
    /\ \/ /\ t = "tick"
          /\ task[t].pc = "service"
          /\ task[t].todo # <<>>
          /\ task' = [task EXCEPT ![t].pc = "wait"]
       \/ /\ t \in {"stepper", "reader"}
          /\ task[t].pc = "idle"
          /\ task' = [task EXCEPT ![t] =
                        [pc |-> "wait",
                         todo |-> <<Section(t, IF t = "stepper" THEN "write"
                                               ELSE "read")>>]]
    /\ UNCHANGED <<server_vars, client_vars, codec_vars, terrain_vars,
                   parser_vars, service_mutex, registry_lock>>

\* RwLock::read / RwLock::write returns the guard.
GuardReturned(t) ==
    /\ task[t].pc = "wait"
    /\ Granted(registry_lock, Head(task[t].todo).mode)
    /\ registry_lock' = WithGuard(registry_lock, t, Head(task[t].todo).mode)
    /\ task' = [task EXCEPT ![t].pc = "registry"]
    /\ UNCHANGED <<server_vars, client_vars, codec_vars, terrain_vars,
                   parser_vars, service_mutex>>

\* The section ends and its guard goes out of scope.
LeaveSection(t) ==
    /\ task[t].pc = "registry"
    /\ registry_lock' = GuardOutOfScope(registry_lock, t)
    /\ task' = [task EXCEPT ![t] =
                  IF t = "tick"
                  THEN [pc |-> "service", todo |-> Tail(task[t].todo)]
                  ELSE IdleTask]
    /\ UNCHANGED <<server_vars, client_vars, codec_vars, terrain_vars,
                   parser_vars, service_mutex>>

\* tick() or the engine call of a handler returns and the MutexGuard is
\* dropped: end of the block in the tick task, end of the statement in a
\* handler.
Unlock(t) ==
    /\ task[t].pc = "service"
    /\ task[t].todo = <<>>
    /\ service_mutex' = "none"
    /\ task' = [task EXCEPT ![t] = IdleTask]
    /\ UNCHANGED <<server_vars, client_vars, codec_vars, terrain_vars,
                   parser_vars, registry_lock>>

LockInit ==
    /\ OthersLeftAlone
    /\ CodecIdle
    /\ TerrainIdle
    /\ ParserIdle
    /\ LocksIdle

LockNext ==
    \/ \E t \in Tasks : CallLock(t)
    \/ \E t \in Tasks : LockReturns(t)
    \/ \E t \in Tasks : CallReadOrWrite(t)
    \/ \E t \in Tasks : GuardReturned(t)
    \/ \E t \in Tasks : LeaveSection(t)
    \/ \E t \in Tasks : Unlock(t)

LockSpec == LockInit /\ [][LockNext]_vars

\* A task that runs keeps running: code under a guard reaches the end of its
\* scope, and the parking_lot locks are eventually fair, so a task that keeps
\* asking is not passed over forever.  Nobody owes a new call.
FairLockSpec ==
    /\ LockSpec
    /\ \A t \in Tasks : SF_vars(LockReturns(t))
    /\ WF_vars(CallReadOrWrite("tick"))
    /\ \A t \in Tasks : SF_vars(GuardReturned(t))
    /\ \A t \in Tasks : WF_vars(LeaveSection(t))
    /\ \A t \in Tasks : WF_vars(Unlock(t))


\* ========================================================================
\* The bridges' message parser on its own (parse_bus_message,
\* parse_nats_message)
\* ========================================================================

MaxElements == 2

\* JSON objects a snapshot may list: complete ones and ones lacking fields.
ChunkObjects == {AnnouncedChunk, [chunk_id |-> "terrain.1.0", lod |-> -1]}
StructureObjects == {[structure_id |-> "rock.1", type_id |-> "rock", x |-> 1,
                      y |-> 0, z |-> 2, rotation_y |-> 0]}
EntityObjects == {[entity_id |-> "alice", archetype |-> "participant", x |-> 0,
                   y |-> 0, z |-> 0, rotation_y |-> 0],
                  [entity_id |-> "bob"]}

\* A field of a JSON object that may be missing.
Absent == [present |-> FALSE, value |-> 0]
Present(value) == [present |-> TRUE, value |-> value]

\* The frame of an envelope: missing, an unsigned number, or a number that
\* as_u64 does not accept.
FrameFields == {Absent, Present(0), Present(3), Present(-1)}

\* An array field: missing, or an array of up to MaxElements objects.
ArrayFields(objects) ==
    {[present |-> FALSE, value |-> <<>>]}
        \cup {Present(a) : a \in Texts(objects, MaxElements)}

\* The JSON object with the field, or without it.
With(key, field) == IF field.present THEN key :> field.value ELSE EmptyMap

\* A snapshot as JSON: bare, or inside the envelope {frame, payload}.
SnapshotJson(frame, enveloped, chunks, structures, entities) ==
    LET body == With("active_chunks", chunks) @@ With("structures", structures)
                  @@ With("entities", entities)
    IN  IF enveloped THEN With("frame", frame) @@ ("payload" :> body)
        ELSE With("frame", frame) @@ body

ParsedSubjects == {<<"world", "snapshot">>, Subject("world", "entity", "spawned")}

\* The native bridge hands an inbound message to parse_bus_message; on Err
\* it logs and queues nothing.
ParseNative ==
    /\ bus_message.kind = "message"
    /\ parsed.kind = "none"
    /\ parsed' = [kind |-> "native",
                  events |-> ParseBusMessage(bus_message.subject, bus_message.json)]
    /\ UNCHANGED <<server_vars, client_vars, codec_vars, terrain_vars, lock_vars,
                   bus_message>>

\* The browser bridge hands the payload of a Msg to parse_nats_message.
ParseBrowser ==
    /\ bus_message.kind = "message"
    /\ parsed.kind = "none"
    /\ parsed' = [kind |-> "browser",
                  events |-> ParseBusMessage(bus_message.subject, bus_message.json)]
    /\ UNCHANGED <<server_vars, client_vars, codec_vars, terrain_vars, lock_vars,
                   bus_message>>

\* Any message of the two subjects: a snapshot within the bounds, or bytes
\* that are not JSON.
ParserInit ==
    /\ OthersLeftAlone
    /\ CodecIdle
    /\ TerrainIdle
    /\ LocksIdle
    /\ parsed = [kind |-> "none"]
    /\ \E subject \in ParsedSubjects :
          \/ bus_message = [kind |-> "message", subject |-> subject,
                            json |-> BadJson]
          \/ \E frame \in FrameFields, enveloped \in BOOLEAN,
                chunks \in ArrayFields(ChunkObjects),
                structures \in ArrayFields(StructureObjects),
                entities \in ArrayFields(EntityObjects) :
                bus_message = [kind |-> "message", subject |-> subject,
                               json |-> Json(SnapshotJson(frame, enveloped, chunks,
                                                          structures, entities))]

ParserNext ==
    \/ ParseNative
    \/ ParseBrowser

ParserSpec == ParserInit /\ [][ParserNext]_vars


\* ========================================================================
\* Properties
\* ========================================================================

\* floor(p / cell_size), stated by its defining inequality.
Floor(p, cell_size) ==
    CHOOSE q \in -16..16 : q * cell_size <= p /\ p < (q + 1) * cell_size

\* The cell of a position.
CellAt(pos) ==
    [x |-> Floor(pos.x, config.cell_size), y |-> Floor(pos.y, config.cell_size)]

\* c lies in the Chebyshev square of radius activation_radius around pos.
InSquare(c, pos) ==
    /\ c.z = 0
    /\ Abs(c.x - CellAt(pos).x) <= config.activation_radius
    /\ Abs(c.y - CellAt(pos).y) <= config.activation_radius

\* cells is the union of the squares around the positions of pp.
IsSquareUnion(cells, pp) ==
    /\ \A c \in cells : \E id \in DOMAIN pp : InSquare(c, pp[id])
    /\ \A id \in DOMAIN pp :
         \A dx, dy \in (0 - config.activation_radius)..config.activation_radius :
            [x |-> CellAt(pp[id]).x + dx, y |-> CellAt(pp[id]).y + dy, z |-> 0]
                \in cells
    /\ Cardinality(DOMAIN pp) = 1 =>
         Cardinality(cells) = (2 * config.activation_radius + 1)
                              * (2 * config.activation_radius + 1)

\* C1 as stated: after every tick() call, failed ones included, active_cells
\* is the union of the Chebyshev squares around the participants' cells.
C1_ActiveIsSquareUnionAfterEveryTick ==
    last.op = "tick" => IsSquareUnion(active_cells, participant_positions)

\* C1 amended: after every tick() call that returns Ok, active_cells is the
\* union over all registered participants of the Chebyshev square of radius
\* activation_radius around the participant's cell floor(position / cell_size);
\* for a single participant these are (2r+1)^2 cells.
C1_ActiveIsSquareUnionAfterOkTick ==
    (last.op = "tick" /\ last.ok) =>
        IsSquareUnion(active_cells, participant_positions)

\* A successful tick with two participants, one at a negative coordinate,
\* radius 1, that started from a non-empty active set.
C1_Witness ==
    /\ last.op = "tick" /\ last.ok
    /\ config.activation_radius = 1
    /\ Cardinality(DOMAIN participant_positions) = 2
    /\ \E id \in DOMAIN participant_positions : participant_positions[id].x < 0
    /\ last.before_active # {}
    /\ active_cells # last.before_active

\* The cells named by the events of a bag, with multiplicity.
EventsFor(events, c) ==
    {e \in BagToSet(events) : e.chunk_id = ToString(c.x) \o ":" \o ToString(c.y)}

C3_TickCountCountsCalls ==
    /\ tick_count = tick_calls
    /\ stats.total_ticks = tick_calls
    /\ (last.op = "tick" /\ last.ok) => last.tick = tick_count

\* The second call has just failed.
C3_Witness ==
    last.op = "tick" /\ ~last.ok /\ tick_calls = 2

\* C4: between operations, every key of terrain_bodies is an active cell.
C4_TerrainBodiesAreActive ==
    DOMAIN terrain_bodies \subseteq active_cells

\* A tick that failed after activating some cells and deactivating others.
C4_Witness ==
    /\ last.op = "tick" /\ ~last.ok
    /\ DOMAIN terrain_bodies # {}
    /\ last.deactivate_calls # {}
    /\ last.activate_calls \cap active_cells # {}

\* C5 as stated: within a tick every unregistration precedes every
\* registration, and the physics backend never holds two terrain bodies for
\* the same cell (no body id is registered twice without an unregistration
\* in between).
C5_OneBodyPerCell ==
    /\ last.op = "tick" =>
         /\ last.physics_calls[1].op = "unregister_body"
         /\ last.physics_calls[2].op = "register_body"
    /\ \A id \in BagToSet(sim_bodies) : CopiesIn(id, sim_bodies) <= 1

\* C6 as stated: with a heightmap terrain, after every successful tick the
\* bodies the engine has registered and not unregistered are exactly
\* "terrain.{cx}.{cy}" for the active cells, one each.
C6_BodiesMatchActiveCells ==
    (world_terrain = "heightmap" /\ last.op = "tick" /\ last.ok) =>
        sim_bodies = SetToBag({"terrain." \o ToString(c.x) \o "." \o ToString(c.y)
                                 : c \in active_cells})

\* C7 as stated: a tick that fails for want of a default simulation leaves
\* active_cells as it was, does not mark the failed cell active and emits no
\* event for it.
C7_NoSimulationLeavesActiveCells ==
    (last.op = "tick" /\ last.error = "NoSimulation") =>
        /\ active_cells = last.before_active
        /\ last.failed \cap active_cells = {}
        /\ \A c \in last.failed : EventsFor(last.activated, c) = {}

\* C8: after a tick that failed in activation the failed cell is in neither
\* active_cells nor terrain_bodies; the next tick with unchanged participants
\* wants to activate it again and, when the backend accepts every
\* registration, succeeds with active_cells equal to the desired set.
C8_FailedActivationIsRetried ==
    /\ (last.op = "tick" /\ last.error \in {"NoSimulation", "RegisterFailed"}) =>
         /\ last.failed # {}
         /\ last.failed \cap active_cells = {}
         /\ last.failed \cap DOMAIN terrain_bodies = {}
    /\ (last.op = "tick" /\ last.retrying # {}) =>
         /\ last.retrying \subseteq last.to_activate
         /\ (sim_present /\ last.register_failed = NoCell) =>
               /\ last.ok
               /\ last.retrying \subseteq active_cells
               /\ IsSquareUnion(active_cells, participant_positions)

\* A tick that retried a failed activation and succeeded.
C8_Witness ==
    last.op = "tick" /\ last.retrying # {} /\ last.ok

\* C9: a failed (or, without a default simulation, skipped) unregistration
\* during deactivation is swallowed: the cell still leaves active_cells,
\* terrain_bodies and cell_objects, its ChunkDeactivated is still produced,
\* and the tick does not fail because of it.
C9_UnregisterErrorsAreSwallowed ==
    last.op = "tick" =>
        \A c \in last.unregister_failed \cup last.unregister_skipped :
            /\ c \notin active_cells
            /\ c \notin DOMAIN terrain_bodies
            /\ c \notin DOMAIN cell_objects
            /\ CopiesIn([chunk_id |-> ToString(c.x) \o ":" \o ToString(c.y)],
                        last.local_deactivated) = 1
            /\ last.error \in {"none", "NoSimulation", "RegisterFailed"}
            /\ last.to_activate = {} => last.ok
            /\ last.ok =>
                 CopiesIn([chunk_id |-> ToString(c.x) \o ":" \o ToString(c.y)],
                          last.deactivated) = 1

\* A successful tick during which an unregister_body call returned Err.
C9_Witness ==
    last.op = "tick" /\ last.ok /\ last.unregister_failed # {}

\* C10: the keys of participant_positions are exactly the ids whose latest
\* register / unregister operation was a register, whatever ticks happened
\* in between, and participant_count() is their number.
C10_ParticipantsAreTheRegistered ==
    /\ DOMAIN participant_positions
         = {id \in ParticipantIds : last_op[id] = "register"}
    /\ participant_count
         = Cardinality({id \in ParticipantIds : last_op[id] = "register"})

\* A tick with a default simulation that holds a body for alice, who has
\* left, while bob is registered.
C10_Witness ==
    /\ last.op = "tick"
    /\ sim_present
    /\ "alice" \in DOMAIN sim_transforms
    /\ last_op["alice"] = "unregister"
    /\ last_op["bob"] = "register"

\* C11: a step that removes a participant outside tick() changes only
\* participant_positions: active_cells, terrain_bodies, cell_objects,
\* tick_count and the physics backend stay as they were; the cells no
\* remaining participant wants leave active_cells in the next tick().
C11_UnregisterOnlyRemovesThePosition ==
    [][/\ (/\ tick_calls' = tick_calls
           /\ DOMAIN participant_positions' # DOMAIN participant_positions
           /\ DOMAIN participant_positions' \subseteq DOMAIN participant_positions)
          => UNCHANGED <<active_cells, terrain_bodies, cell_objects,
                         tick_count, physics_vars>>
       /\ (tick_calls' = tick_calls + 1)
          => \A c \in active_cells :
                (\A id \in DOMAIN participant_positions' :
                    ~InSquare(c, participant_positions'[id]))
                => c \notin active_cells'
      ]_vars

\* A tick after the only participant left: it deactivated the cells that
\* had stayed active since the unregister.
C11_Witness ==
    /\ last.op = "tick"
    /\ last.before_active # {}
    /\ last.deactivate_calls = last.before_active
    /\ participant_positions = EmptyMap
    /\ \E id \in ParticipantIds : last_op[id] = "unregister"

\* C12: a successful tick() returns exactly one EntityTransform per
\* registered participant and none for any other id; it carries the id, the
\* position cached after the physics sync of that tick (the simulation's
\* transform with z = 0 when the simulation has one for the id), and zero
\* rotation_y, vx, vy, vz and dt.
C12_OneTransformPerParticipant ==
    (last.op = "tick" /\ last.ok) =>
        /\ BagToSet(last.entity_transforms)
             = {[entity_id |-> id,
                 x |-> participant_positions[id].x,
                 y |-> participant_positions[id].y,
                 z |-> participant_positions[id].z,
                 rotation_y |-> 0, vx |-> 0, vy |-> 0, vz |-> 0, dt |-> 0]
                  : id \in DOMAIN participant_positions}
        /\ \A e \in BagToSet(last.entity_transforms) :
              /\ CopiesIn(e, last.entity_transforms) = 1
              /\ last_op[e.entity_id] = "register"
              /\ (sim_present /\ e.entity_id \in DOMAIN sim_transforms) =>
                    /\ e.x = sim_transforms[e.entity_id][1]
                    /\ e.y = sim_transforms[e.entity_id][2]
                    /\ e.z = 0
        /\ BagCardinality(last.entity_transforms)
             = Cardinality({id \in ParticipantIds : last_op[id] = "register"})

\* A successful tick that moved alice to the simulation's transform and
\* returned transforms for alice and bob.
C12_Witness ==
    /\ last.op = "tick"
    /\ last.ok
    /\ sim_present
    /\ "alice" \in DOMAIN sim_transforms
    /\ DOMAIN participant_positions = {"alice", "bob"}
    /\ BagCardinality(last.entity_transforms) = 2

Tagged(seq, subject) == [i \in 1..Len(seq) |-> <<subject, seq[i]>>]

\* C14: for a successful tick the events handed to publish are all its
\* ChunkActivated on world.chunk.activated, then all its ChunkDeactivated on
\* world.chunk.deactivated, then all its EntityTransform on
\* world.entity.transform; they are published in that order, one per publish
\* call, and the tick task publishes on no other subject.
C14_PublishOrderWithinATick ==
    [][/\ (tick_calls' = tick_calls + 1 /\ last'.ok) =>
            \E a \in Orderings(last'.activated),
               d \in Orderings(last'.deactivated),
               t \in Orderings(last'.entity_transforms) :
               [i \in 1..Len(pending') |->
                    <<pending'[i].subject, pending'[i].payload>>]
                 = Tagged(a, "world.chunk.activated")
                     \o Tagged(d, "world.chunk.deactivated")
                     \o Tagged(t, "world.entity.transform")
       /\ (Len(published') = Len(published) + 1) =>
            /\ pending # <<>>
            /\ published'[Len(published')].event = Head(pending)
            /\ pending' = Tail(pending)
       /\ \A i \in 1..Len(published') :
            published'[i].event.subject \in
               {"world.chunk.activated", "world.chunk.deactivated",
                "world.entity.transform"}
      ]_vars

\* A tick whose activated, deactivated and transform events have all been
\* published, in that order.
C14_Witness ==
    /\ tick_pc = "timer"
    /\ \E i, j, k \in 1..Len(published) :
          /\ i < j /\ j < k
          /\ published[i].event.frame = published[k].event.frame
          /\ published[j].event.frame = published[k].event.frame
          /\ published[i].event.subject = "world.chunk.activated"
          /\ published[j].event.subject = "world.chunk.deactivated"
          /\ published[k].event.subject = "world.entity.transform"

\* C15: every event of a tick carries that tick's tick_count as frame and
\* the configured session, and the frames of the publish calls made so far
\* never decrease.
C15_FramesFollowTickCount ==
    /\ \A i \in 1..Len(pending) :
          /\ pending[i].frame = tick_count
          /\ pending[i].session = DefaultSession
    /\ \A i \in 1..Len(published) :
          /\ published[i].event.session = DefaultSession
          /\ published[i].event.frame >= 1
          /\ published[i].event.frame <= tick_count
          /\ \A j \in 1..Len(published) :
                i < j => published[i].event.frame <= published[j].event.frame

\* Events of tick 1 and of tick 2 have been published.
C15_Witness ==
    \E i, j \in 1..Len(published) :
        /\ published[i].event.frame = 1
        /\ published[j].event.frame = 2

\* C16 as stated: the tick task and a handler never hold the engine at the
\* same time, and every participant registered when tick() starts has its
\* cell in that tick's desired set and an EntityTransform in its events.
C16_JoinVisibleToNextTick ==
    [][/\ ~(tick_pc' = "locked" /\ handler'.pc = "locked")
       /\ (tick_calls' = tick_calls + 1) =>
            \A id \in DOMAIN participant_positions :
               /\ \E c \in last'.desired : InSquare(c, participant_positions'[id])
               /\ \E e \in BagToSet(last'.entity_transforms) : e.entity_id = id
      ]_vars

\* C16, amended: the tick task and a handler never hold the engine at the
\* same time; every participant registered when tick() starts has its cell
\* in that tick's desired set, and when that tick() returns Ok an
\* EntityTransform for it is among the events queued for publishing.  A
\* tick() that returns Err yields no event at all.
C16_JoinVisibleToNextOkTick ==
    [][/\ ~(tick_pc' = "locked" /\ handler'.pc = "locked")
       /\ (tick_calls' = tick_calls + 1) =>
            /\ \A id \in DOMAIN participant_positions :
                  /\ \E c \in last'.desired :
                        InSquare(c, participant_positions'[id])
                  /\ last'.ok =>
                        \E i \in 1..Len(pending') :
                           /\ pending'[i].subject = "world.entity.transform"
                           /\ pending'[i].payload.entity_id = id
            /\ ~last'.ok => pending' = <<>>
      ]_vars

\* A successful tick that ran after alice's join and queued her transform.
C16_Witness ==
    /\ last.op = "tick"
    /\ last.ok
    /\ "alice" \in DOMAIN participant_positions
    /\ tick_pc = "publishing"
    /\ \E i \in 1..Len(pending) : pending[i].subject = "world.entity.transform"

\* C17: the engine lock is held only by a task that is between its lock()
\* and the end of its engine call; at the timer wait and during the publish
\* calls the tick task does not hold it, so a handler waiting for the lock
\* while events are being published finds it free unless another handler
\* has it.
C17_NoLockAcrossSuspension ==
    /\ engine_lock => (tick_pc = "locked" \/ handler.pc = "locked")
    /\ (tick_pc \in {"timer", "acquire", "publishing"} /\ handler.pc # "locked")
          => ~engine_lock
    /\ (tick_pc = "locked") => handler.pc # "locked"

\* A handler holds the engine while events of a tick are still to be
\* published.
C17_Witness ==
    /\ tick_pc = "publishing"
    /\ pending # <<>>
    /\ handler.pc = "locked"
    /\ engine_lock

\* The payload of the command has every field its message declares, with
\* the right JSON kind.
WellFormed(command_id) ==
    \E cmd \in Commands :
        /\ cmd.command_id = command_id
        /\ cmd.subject \in {"world.participant.join", "world.command.teleport"} =>
              /\ {"id", "x", "y", "z"} \subseteq DOMAIN cmd.payload
              /\ cmd.payload["id"].kind = "string"
              /\ \A f \in {"x", "y", "z"} : cmd.payload[f].kind = "number"
        /\ cmd.subject = "world.participant.leave" =>
              /\ "id" \in DOMAIN cmd.payload
              /\ cmd.payload["id"].kind = "string"

\* C18: a join, leave or teleport whose payload does not decode is answered
\* with a failure whose message is "Invalid payload: " followed by the
\* decoder's error; it never reaches the engine (no handler takes the lock
\* for it, no success is returned for it) and the step that answers it leaves
\* the engine state unchanged.
C18_BadPayloadIsRejected ==
    [][/\ (response' # response /\ response'.status = "failed") =>
            /\ ~WellFormed(response'.command_id)
            /\ response'.message \in
                  {"Invalid payload: " \o e : e \in {"invalid type", "missing field"}}
            /\ UNCHANGED <<participant_positions, active_cells, terrain_bodies,
                           cell_objects, tick_count, physics_vars>>
       /\ (response'.status = "success") => WellFormed(response'.command_id)
       /\ (handler'.pc # "none") => WellFormed(handler'.command_id)
      ]_vars

\* A malformed command was answered with a failure while the engine held a
\* participant and had ticked.
C18_Witness ==
    /\ response.status = "failed"
    /\ participant_positions # EmptyMap
    /\ tick_count > 0

\* C19: a publish call that fails takes its event off the queue and the
\* tick task goes on with the rest; a tick() that returns Err publishes
\* nothing and the task goes back to the timer; the task never ends; and
\* (under the fairness of FairBusSpec) tick() is run again and again until
\* the bound on ticks is reached, with everything queued handed to publish
\* and the task back at its timer.
C19_TickLoopSurvivesErrors ==
    /\ [][/\ tick_pc' \in {"timer", "acquire", "locked", "publishing"}
          /\ (Len(published') = Len(published) + 1) =>
                /\ pending' = Tail(pending)
                /\ tick_pc' = IF pending' = <<>> THEN "timer" ELSE "publishing"
          /\ (tick_calls' = tick_calls + 1 /\ ~last'.ok) =>
                /\ pending' = <<>>
                /\ published' = published
                /\ tick_pc' = "timer"
         ]_vars
    /\ <>[](tick_calls = MaxBusTicks /\ pending = <<>> /\ tick_pc = "timer")

\* A publish call failed and a later event of the same tick was published.
C19_Witness ==
    \E i, j \in 1..Len(published) :
        /\ i < j
        /\ ~published[i].ok
        /\ published[j].ok
        /\ published[i].event.frame = published[j].event.frame

\* The signals a snapshot is said to suppress.
PerEventSignals ==
    {"chunk_activated", "chunk_deactivated", "structure_spawned",
     "structure_removed", "entity_spawned", "entity_removed"}

\* Entry i of the log is a SnapshotBegin, and up to entry n neither a
\* SnapshotEnd, nor another SnapshotBegin, nor a Disconnected follows it.
HydratingSince(i, n) ==
    /\ mirror_log[i].event.type = "SnapshotBegin"
    /\ \A j \in (i + 1)..n :
          mirror_log[j].event.type
              \notin {"SnapshotBegin", "SnapshotEnd", "Disconnected"}

\* The flag is set from SnapshotBegin on.
FlagSetWhileHydrating ==
    \A i \in 1..Len(mirror_log) :
        HydratingSince(i, Len(mirror_log)) => mirror_cache.in_snapshot

\* No event applied after a SnapshotBegin and before its SnapshotEnd
\* emitted one of the per-event signals.
SilentWhileHydrating ==
    \A i \in 1..Len(mirror_log) : \A j \in (i + 1)..Len(mirror_log) :
        HydratingSince(i, j) =>
            \A k \in 1..Len(mirror_log[j].signals) :
                mirror_log[j].signals[k].name \notin PerEventSignals

\* Right after the SnapshotEnd of a snapshot begun at entry i: the flag is
\* down and every object spawned in between and not removed again is cached.
HydratedAtEnd ==
    \A i \in 1..Len(mirror_log) :
        ( /\ Len(mirror_log) > i
          /\ HydratingSince(i, Len(mirror_log) - 1)
          /\ mirror_log[Len(mirror_log)].event.type = "SnapshotEnd" ) =>
            /\ ~mirror_cache.in_snapshot
            /\ \A j \in (i + 1)..(Len(mirror_log) - 1) :
                 \E ev \in {mirror_log[j].event} :
                   \E later \in {{mirror_log[k].event.type :
                                    k \in (j + 1)..(Len(mirror_log) - 1)}} :
                     /\ (ev.type = "ChunkActivated"
                           /\ "ChunkDeactivated" \notin later) =>
                          /\ ev.chunk_id \in DOMAIN mirror_cache.chunks
                          /\ mirror_cache.chunks[ev.chunk_id].cx = ev.cx
                          /\ mirror_cache.chunks[ev.chunk_id].cy = ev.cy
                     /\ (ev.type = "StructureSpawned"
                           /\ "StructureRemoved" \notin later) =>
                          /\ ev.structure_id \in DOMAIN mirror_cache.structures
                          /\ mirror_cache.structures[ev.structure_id].type_id
                               = ev.type_id
                     /\ (ev.type = "EntitySpawned"
                           /\ "EntityRemoved" \notin later) =>
                          /\ ev.entity_id \in DOMAIN mirror_cache.entities
                          /\ mirror_cache.entities[ev.entity_id].archetype
                               = ev.archetype

\* C20: from the SnapshotBegin the mirror applies until its SnapshotEnd,
\* in_snapshot is true and the events applied in between emit none of
\* chunk_activated, chunk_deactivated, structure_spawned, structure_removed,
\* entity_spawned, entity_removed; after SnapshotEnd in_snapshot is false and
\* the cache holds the objects delivered in the snapshot.
C20_SnapshotSuppressesSignals ==
    /\ FlagSetWhileHydrating
    /\ SilentWhileHydrating
    /\ HydratedAtEnd

SpawnEvents == {"ChunkActivated", "StructureSpawned", "EntitySpawned"}

\* The log ends with a whole snapshot stream begun at entry i: SnapshotBegin,
\* spawn events only, SnapshotEnd.
SnapshotStreamFrom(i) ==
    /\ i < Len(mirror_log)
    /\ mirror_log[i].event.type = "SnapshotBegin"
    /\ mirror_log[Len(mirror_log)].event.type = "SnapshotEnd"
    /\ \A j \in (i + 1)..(Len(mirror_log) - 1) :
          mirror_log[j].event.type \in SpawnEvents

\* Where, from entry i on, a signal `name` about object `id` was emitted.
SignalsAbout(i, name, id) ==
    {<<j, k>> \in (i..Len(mirror_log)) \X (1..(MaxMirrorEvents + 2)) :
        /\ k <= Len(mirror_log[j].signals)
        /\ mirror_log[j].signals[k].name = name
        /\ mirror_log[j].signals[k].args[1] = id}

\* Where, from entry i on, snapshot_end was emitted.
SnapshotEndSignals(i) ==
    {<<j, k>> \in (i..Len(mirror_log)) \X (1..(MaxMirrorEvents + 2)) :
        /\ k <= Len(mirror_log[j].signals)
        /\ mirror_log[j].signals[k].name = "snapshot_end"}

\* Exactly one signal `name` about `id` since entry i, and it follows the
\* snapshot_end signal at position `e` of the log.
OnceAfter(i, name, id, e) ==
    /\ Cardinality(SignalsAbout(i, name, id)) = 1
    /\ \A at \in SignalsAbout(i, name, id) :
          at[1] > e[1] \/ (at[1] = e[1] /\ at[2] > e[2])

\* C21: when a stream SnapshotBegin, spawn events, SnapshotEnd has been
\* applied to a mirror (native or browser), snapshot_end was emitted once and
\* every chunk, structure and entity in the cache got exactly one spawn
\* signal for that hydration, emitted after snapshot_end.
C21_OneSpawnSignalPerObject ==
    \A i \in 1..Len(mirror_log) :
        SnapshotStreamFrom(i) =>
            /\ Cardinality(SnapshotEndSignals(i)) = 1
            /\ \A e \in SnapshotEndSignals(i) :
                 /\ \A id \in DOMAIN mirror_cache.chunks :
                      OnceAfter(i, "chunk_activated", id, e)
                 /\ \A id \in DOMAIN mirror_cache.structures :
                      OnceAfter(i, "structure_spawned", id, e)
                 /\ \A id \in DOMAIN mirror_cache.entities :
                      OnceAfter(i, "entity_spawned", id, e)

\* The frames of the EntityTransform events among the first n log entries.
TransformFrames(log, n) ==
    {log[j].event.frame :
        j \in {k \in 1..n : log[k].event.type = "EntityTransform"}}

\* The largest frame of the set, 0 if it is empty.
MaxFrame(frames) ==
    IF frames = {} THEN 0
    ELSE CHOOSE f \in frames : \A g \in frames : g <= f

\* C22: while the mirror stays connected, last_frame is the maximum frame of
\* the EntityTransform events applied so far (0 if none) and no applied
\* event, of whatever kind, decreases it.
C22_LastFrameIsTheMaximum ==
    [][mirror_handle' =>
         /\ mirror_cache'.last_frame
              = MaxFrame(TransformFrames(mirror_log', Len(mirror_log')))
         /\ mirror_cache'.last_frame >= mirror_cache.last_frame]_vars

RemovalEvents == {"ChunkDeactivated", "StructureRemoved", "EntityRemoved"}

\* The cache after the events are applied one by one, starting from `cache`.
RECURSIVE Replay(_, _, _)
Replay(kind, cache, events) ==
    IF events = <<>> THEN cache
    ELSE Replay(kind,
                (CHOOSE o \in OutcomesOf(kind, cache, TRUE, Head(events)) :
                    TRUE).cache,
                Tail(events))

\* The log is a snapshot applied to a fresh mirror, SnapshotEnd at entry e,
\* followed by removal events only.
SnapshotThenRemovals(e) ==
    /\ 1 < e /\ e <= Len(mirror_log)
    /\ mirror_log[1].event.type = "SnapshotBegin"
    /\ mirror_log[e].event.type = "SnapshotEnd"
    /\ \A j \in 2..(e - 1) : mirror_log[j].event.type \in SpawnEvents
    /\ \A j \in (e + 1)..Len(mirror_log) :
          mirror_log[j].event.type \in RemovalEvents

\* The spawn and removal events of the log, in order.
SpawnsAndRemovals ==
    SelectSeq([j \in 1..Len(mirror_log) |-> mirror_log[j].event],
              LAMBDA ev : ev.type \in SpawnEvents \cup RemovalEvents)

\* C23: a snapshot (SnapshotBegin, spawns, SnapshotEnd) applied to a fresh
\* mirror and followed by removal events leaves the same chunks, structures
\* and entities maps as the spawn events of the snapshot applied one by one
\* to an empty mirror and followed by the same removal events.
C23_SnapshotEqualsIndividualSpawns ==
    \A e \in 1..Len(mirror_log) :
        SnapshotThenRemovals(e) =>
            \E direct \in {Replay(mirror_kind, EmptyCache, SpawnsAndRemovals)} :
               /\ mirror_cache.chunks = direct.chunks
               /\ mirror_cache.structures = direct.structures
               /\ mirror_cache.entities = direct.entities

\* A snapshot with one chunk was applied and the chunk deactivated again.
C23_Witness ==
    /\ Len(mirror_log) = 4
    /\ SnapshotThenRemovals(3)
    /\ mirror_log[2].event.type = "ChunkActivated"
    /\ mirror_log[4].event.type = "ChunkDeactivated"
    /\ mirror_log[4].event.chunk_id = mirror_log[2].event.chunk_id
    /\ mirror_cache.chunks = EmptyMap

\* C24: in both bridges the bridge-to-mirror event queue never holds more
\* than its bound, and an event of any kind produced by the bridge while the
\* queue is full is discarded, the queued events and their order unchanged.
C24_EventQueueIsBounded ==
    [][/\ Len(event_queue') <= EventBuffer
       /\ (Len(event_queue) >= EventBuffer /\ UNCHANGED mirror_vars) =>
             event_queue' = event_queue]_vars

\* A Connected event has been queued: it waits in the queue or was applied.
ConnectedQueued ==
    \/ \E i \in 1..Len(event_queue) : event_queue[i].type = "Connected"
    \/ \E i \in 1..Len(mirror_log) : mirror_log[i].event.type = "Connected"

\* C25: the Connected event is never queued before the subscription to
\* world.> has been issued, and never when the subscription failed.
C25_ConnectedOnlyAfterSubscribe ==
    ConnectedQueued =>
        \E i \in 1..Len(wire) :
            /\ wire[i].op = "SUB"
            /\ wire[i].subject = <<"world", ">">>
            /\ wire[i].ok

\* The client's transport has failed or closed.
TransportDown ==
    \/ mirror_kind = "native" /\ bridge_pc = "exited"
    \/ mirror_kind = "browser" /\ ws_state.ws_closed

\* The mirror has applied a Disconnected event: the state "disconnected" was
\* emitted, the handle is dropped and the three maps are empty.
DisconnectedApplied ==
    /\ \E i \in 1..Len(mirror_log) :
          /\ mirror_log[i].event.type = "Disconnected"
          /\ \E k \in 1..Len(mirror_log[i].signals) :
                /\ mirror_log[i].signals[k].name = "connection_state_changed"
                /\ mirror_log[i].signals[k].args = <<"disconnected">>
    /\ ~mirror_handle
    /\ mirror_cache.chunks = EmptyMap
    /\ mirror_cache.structures = EmptyMap
    /\ mirror_cache.entities = EmptyMap

\* C26: whenever the client transport fails or closes and the application
\* does not disconnect on its own, the mirror eventually applies a
\* Disconnected event, after which its maps are empty, its bridge handle is
\* dropped and the state "disconnected" has been emitted.
C26_TransportCloseReachesTheMirror ==
    (TransportDown /\ ~user_disconnected)
        ~> (DisconnectedApplied \/ user_disconnected)

\* The bridge has published the message on the subject for ClientId.
Published(subject) ==
    \E i \in 1..Len(wire) :
        /\ wire[i].op = "PUB"
        /\ wire[i].subject = subject
        /\ wire[i].payload.id = ClientId
        /\ wire[i].ok

\* C27: when a client that has announced itself disconnects voluntarily, a
\* world.participant.leave carrying its participant id is eventually
\* published to the bus.
C27_VoluntaryDisconnectPublishesLeave ==
    (user_disconnected /\ Published(Subject("world", "participant", "join")))
        ~> Published(Subject("world", "participant", "leave"))

\* The subject and the payload are within what the round trip is stated for:
\* no whitespace in the subject, no CR LF in the payload.
RoundTripInput ==
    /\ \A i \in 1..Len(frame_in.subject) : frame_in.subject[i] \notin Whitespace
    /\ \A i \in 1..(Len(frame_in.payload) - 1) :
          ~(frame_in.payload[i] = CR /\ frame_in.payload[i + 1] = LF)

\* C28: for every subject without whitespace and every payload without a
\* CR LF sequence, the frame built by pub_frame declares the byte length of
\* the payload, and the echo of the message with that length is parsed into
\* exactly one Msg operation with that subject and exactly those payload
\* bytes.
C28_PubThenMsgRoundTrip ==
    (RoundTripInput /\ frame_out.kind = "parsed") =>
        /\ DeclaredLength(frame_out.pub) = ByteLen(frame_in.payload)
        /\ frame_out.ops = <<MsgOp(frame_in.subject, AsBytes(frame_in.payload))>>

\* C28 for the subjects that have at least one character.
C28_NonEmptySubjectRoundTrip ==
    (RoundTripInput /\ frame_in.subject # <<>> /\ frame_out.kind = "parsed") =>
        /\ DeclaredLength(frame_out.pub) = ByteLen(frame_in.payload)
        /\ frame_out.ops = <<MsgOp(frame_in.subject, AsBytes(frame_in.payload))>>

\* An echo was parsed whose payload has a character of two bytes, a lone CR
\* and a leading space.
C28_Witness ==
    /\ frame_out.kind = "parsed"
    /\ frame_in.subject = <<"a", ".">>
    /\ frame_in.payload = <<SP, EAcute, CR>>
    /\ Len(frame_out.ops) = 1

\* The chunks generated so far for a key.
GeneratedFor(key) == {h \in 1..Len(chunk_heap) : chunk_heap[h].key = key}

\* C29: while nothing has been evicted, all get_or_generate_chunk calls that
\* returned for one key returned the same handle, the chunk of that key was
\* generated exactly once, and the cache holds exactly one entry for it;
\* whatever the interleaving, no key has had two chunks generated.
C29_ConcurrentCallersShareOneChunk ==
    terrain_log.evictions = 0 =>
        /\ \A r1, r2 \in terrain_log.returned :
              r1.key = r2.key => r1.handle = r2.handle
        /\ \A r \in terrain_log.returned :
              /\ Cardinality(GeneratedFor(r.key)) = 1
              /\ Cardinality(EntriesOf(chunk_cache, r.key)) = 1
              /\ HandleOf(chunk_cache, r.key) = r.handle
        /\ \A h \in 1..Len(chunk_heap) :
              Cardinality(GeneratedFor(chunk_heap[h].key)) = 1

\* Both threads have returned from get_or_generate_chunk for the same key,
\* one of them while the other was waiting for the lock, with no eviction.
C29_Witness ==
    /\ terrain_log.evictions = 0
    /\ \E r1, r2 \in terrain_log.returned :
          /\ r1.thread # r2.thread
          /\ r1.key = r2.key
          /\ r1.contended

\* The height of a point read from a chunk generated for the purpose.
FreshHeight(x, y) ==
    HeightIn(GenerateChunk(heightmap, ChunkCoord(heightmap, x, y).cx,
                           ChunkCoord(heightmap, x, y).cy, 0), x, y)

\* C30: every height_at(x, y) returned the value that the seed, the chunk
\* size, the base resolution and the point determine, so two calls with the
\* same arguments returned the same value, whatever the cache held and
\* whatever evictions and chunk requests at any LOD came in between.
C30_HeightDependsOnThePointOnly ==
    /\ \A r \in terrain_log.heights : r.height = FreshHeight(r.x, r.y)
    /\ \A r1, r2 \in terrain_log.heights :
          (r1.x = r2.x /\ r1.y = r2.y) => r1.height = r2.height

\* The same point was read twice from two different chunk objects (its chunk
\* was evicted and generated again in between) while a chunk of the same
\* place at LOD 1 had been generated.
C30_Witness ==
    /\ terrain_log.evictions > 0
    /\ \E r1, r2 \in terrain_log.heights :
          /\ r1.x = r2.x /\ r1.y = r2.y
          /\ r1.handle # r2.handle
          /\ \E h \in 1..Len(chunk_heap) :
                /\ chunk_heap[h].key[3] = 1
                /\ chunk_heap[h].key[1] = ChunkCoord(heightmap, r1.x, r1.y).cx

\* C31: every tick() call, failing or not, leaves the set of participants as
\* it was, gives each participant that has a transform in the default
\* simulation the position (px, py, 0) of that transform, leaves every other
\* participant (all of them without a default simulation) where it was, and
\* computes the desired cells from the positions so synchronised.
C31_TickSyncsPositionsFirst ==
    [][tick_calls' = tick_calls + 1 =>
          /\ DOMAIN participant_positions' = DOMAIN participant_positions
          /\ \A id \in DOMAIN participant_positions :
                IF sim_present /\ id \in DOMAIN sim_transforms
                THEN participant_positions'[id]
                       = Vec3(sim_transforms[id][1], sim_transforms[id][2], 0)
                ELSE participant_positions'[id] = participant_positions[id]
          /\ last'.desired = ComputeActiveCells(participant_positions', config)]_vars

\* A tick has moved alice, who joined elsewhere, to the simulation's
\* transform and has left bob, who has none, at the place with z = 7 he
\* joined at.
C31_Witness ==
    /\ last.op = "tick"
    /\ sim_present
    /\ "alice" \in DOMAIN sim_transforms
    /\ DOMAIN participant_positions = {"alice", "bob"}
    /\ participant_positions["alice"] = Vec3(5, -1, 0)
    /\ participant_positions["bob"] = Vec3(-3, 1, 7)
    /\ last.desired = ComputeActiveCells(participant_positions, config)

\* The snapshot body of a parsed JSON message, and its arrays.
SnapshotBody(json) == Field(json.value, "payload", json.value)
ArrayOf(json, key) == IF json.ok THEN Field(SnapshotBody(json), key, <<>>) ELSE <<>>

\* The events are one SnapshotBegin with the frame, one ChunkActivated per
\* chunk, one StructureSpawned per structure, one EntitySpawned per entity
\* and one SnapshotEnd, in that order, each carrying its element's id.
ExpandsInOrder(evs, frame, chunks, structures, entities) ==
    LET nc == Len(chunks)
        ns == Len(structures)
        ne == Len(entities)
    IN  /\ Len(evs) = nc + ns + ne + 2
        /\ evs[1] = [type |-> "SnapshotBegin", frame |-> frame]
        /\ \A i \in 1..nc :
              /\ evs[1 + i].type = "ChunkActivated"
              /\ evs[1 + i].chunk_id = chunks[i].chunk_id
        /\ \A i \in 1..ns :
              /\ evs[1 + nc + i].type = "StructureSpawned"
              /\ evs[1 + nc + i].structure_id = structures[i].structure_id
        /\ \A i \in 1..ne :
              /\ evs[1 + nc + ns + i].type = "EntitySpawned"
              /\ evs[1 + nc + ns + i].entity_id = entities[i].entity_id
        /\ evs[Len(evs)] = [type |-> "SnapshotEnd"]

\* C32 as stated: every message on world.snapshot is expanded, by either
\* bridge, into SnapshotBegin with the envelope frame (0 if absent), the
\* spawn events of its arrays in order, and SnapshotEnd.
C32_SnapshotExpandsInOrder ==
    (parsed.kind # "none" /\ bus_message.subject = <<"world", "snapshot">>) =>
        ExpandsInOrder(parsed.events,
                       IF bus_message.json.ok
                       THEN Field(bus_message.json.value, "frame", 0)
                       ELSE 0,
                       ArrayOf(bus_message.json, "active_chunks"),
                       ArrayOf(bus_message.json, "structures"),
                       ArrayOf(bus_message.json, "entities"))

\* C32 for the messages whose payload is JSON, the frame being 0 also when
\* it is not an unsigned number.
C32_JsonSnapshotExpandsInOrder ==
    (/\ parsed.kind # "none"
     /\ bus_message.subject = <<"world", "snapshot">>
     /\ bus_message.json.ok) =>
        ExpandsInOrder(parsed.events,
                       U64Field(bus_message.json.value, "frame"),
                       ArrayOf(bus_message.json, "active_chunks"),
                       ArrayOf(bus_message.json, "structures"),
                       ArrayOf(bus_message.json, "entities"))

\* The browser bridge has expanded an enveloped snapshot of frame 3 with two
\* different chunks, a structure and two different entities.
C32_Witness ==
    /\ parsed.kind = "browser"
    /\ bus_message.subject = <<"world", "snapshot">>
    /\ bus_message.json.ok
    /\ Field(bus_message.json.value, "frame", 0) = 3
    /\ "payload" \in DOMAIN bus_message.json.value
    /\ Len(ArrayOf(bus_message.json, "active_chunks")) = 2
    /\ ArrayOf(bus_message.json, "active_chunks")[1].chunk_id
          # ArrayOf(bus_message.json, "active_chunks")[2].chunk_id
    /\ Len(ArrayOf(bus_message.json, "structures")) = 1
    /\ Len(ArrayOf(bus_message.json, "entities")) = 2
    /\ ArrayOf(bus_message.json, "entities")[1].entity_id
          # ArrayOf(bus_message.json, "entities")[2].entity_id
    /\ Len(parsed.events) = 7

\* What the claim expects of one server item: one operation per INFO, PING,
\* +OK, -ERR and MSG, the MSG with its payload line cut to the declared
\* number of bytes; nothing for an empty line or a MSG header that lacks a
\* word.
ExpectedOps(item) ==
    CASE item.op = "Info" -> <<InfoOp(item.text)>>
      [] item.op = "Ping" -> <<PingOp>>
      [] item.op = "Ok" -> <<OkOp>>
      [] item.op = "Err" -> <<ErrOp(item.text)>>
      [] item.op = "Msg" ->
            <<MsgOp(item.subject,
                    SubSeq(AsBytes(item.text), 1,
                           IF ByteLen(item.text) <= item.declared
                           THEN ByteLen(item.text) ELSE item.declared))>>
      [] OTHER -> <<>>

RECURSIVE ExpectedOpsOfAll(_)
ExpectedOpsOfAll(items) ==
    IF items = <<>> THEN <<>>
    ELSE ExpectedOps(Head(items)) \o ExpectedOpsOfAll(Tail(items))

ChebyshevDistance(key, ox, oy) ==
    IF Abs(key[1] - ox) >= Abs(key[2] - oy)
    THEN Abs(key[1] - ox) ELSE Abs(key[2] - oy)

\* C34: evict_distant_chunks(ox, oy, m) leaves exactly the entries that were
\* cached within distance m, at every LOD, and adds none; the cache stays so
\* until the call returns; and a chunk generated again for a key has the
\* contents of every chunk generated for that key before.
C34_EvictKeepsExactlyTheNearChunks ==
    [][/\ \A t \in Threads :
            /\ (thread[t].op = "evict_distant_chunks"
                   /\ thread[t].pc = "locked" /\ thread'[t].pc = "unlocking")
                  => chunk_cache' =
                        {e \in chunk_cache :
                            ChebyshevDistance(e.key, thread[t].cx, thread[t].cy)
                                <= thread[t].max}
            /\ (thread[t].op = "evict_distant_chunks"
                   /\ thread[t].pc = "unlocking")
                  => chunk_cache' = chunk_cache
       /\ Len(chunk_heap') > Len(chunk_heap)
             => \A h \in 1..Len(chunk_heap) :
                   chunk_heap[h].key = chunk_heap'[Len(chunk_heap')].key
                      => chunk_heap[h].chunk = chunk_heap'[Len(chunk_heap')].chunk
      ]_vars

\* Two chunks were cached, the far one was evicted while the near one stayed
\* at its LOD, and the far one was generated again with the same contents.
C34_Witness ==
    /\ terrain_log.evictions = 1
    /\ Len(chunk_heap) = 3
    /\ chunk_heap[1].key = <<-1, 0, 0>>
    /\ chunk_heap[2].key = <<0, 0, 1>>
    /\ chunk_heap[3].key = <<-1, 0, 0>>
    /\ chunk_heap[3].chunk = chunk_heap[1].chunk
    /\ chunk_cache = {[key |-> <<0, 0, 1>>, handle |-> 2],
                      [key |-> <<-1, 0, 0>>, handle |-> 3]}

FoldStep(cells, deactivated, activated) ==
    {c \in cells : ChunkDeactivated(c) \notin BagToSet(deactivated)}
        \cup {CellCoord(e.cx, e.cy, 0) : e \in BagToSet(activated)}

\* C36: the fold of the events returned by all tick() calls so far, from the
\* empty set, is the engine's active_cells, failing ticks included.  Both
\* start empty, so the fold follows active_cells exactly when every tick
\* changes active_cells by the events it returns (none on Err) and no other
\* operation changes it.
C36_ReturnedEventsFoldToActiveCells ==
    [][active_cells' =
          IF tick_calls' = tick_calls + 1
          THEN FoldStep(active_cells, last'.deactivated, last'.activated)
          ELSE active_cells]_vars

\* The events the server's tick loop publishes.
TickLoopEventTypes == {"ChunkActivated", "ChunkDeactivated", "EntityTransform"}

\* C37: applying an EntityTransform never creates a cache entry: for an id
\* that is not cached the mirror changes nothing but last_frame (and emits
\* the signal), so a mirror that has applied only tick-loop events (chunk
\* activated, chunk deactivated, entity transform) has no entity.
C37_TransformsNeverCreateEntities ==
    [][/\ (/\ Len(mirror_log') = Len(mirror_log) + 1
           /\ mirror_log'[Len(mirror_log')].event.type = "EntityTransform")
          => /\ DOMAIN mirror_cache'.entities = DOMAIN mirror_cache.entities
             /\ mirror_log'[Len(mirror_log')].event.entity_id
                    \notin DOMAIN mirror_cache.entities
                  => /\ mirror_cache' =
                          [mirror_cache EXCEPT
                              !.last_frame = mirror_cache'.last_frame]
                     /\ mirror_cache'.last_frame >= mirror_cache.last_frame
                     /\ Len(mirror_log'[Len(mirror_log')].signals) = 1
       /\ (\A i \in 1..Len(mirror_log') :
              mirror_log'[i].event.type \in TickLoopEventTypes)
          => mirror_cache'.entities = EmptyMap]_vars

\* A chunk was activated and two transforms of an entity the mirror never
\* saw spawned were applied: the latest frame is kept, no entity is cached.
C37_Witness ==
    /\ Len(mirror_log) = 3
    /\ mirror_log[1].event.type = "ChunkActivated"
    /\ mirror_log[2].event.type = "EntityTransform"
    /\ mirror_log[2].event.frame = 5
    /\ mirror_log[3].event.type = "EntityTransform"
    /\ mirror_log[3].event.frame = 4
    /\ Len(mirror_log[3].signals) = 1
    /\ mirror_cache.last_frame = 5
    /\ DOMAIN mirror_cache.chunks # {}
    /\ mirror_cache.entities = EmptyMap

\* The activation window of a cached position.
WindowOf(pos) ==
    Window(CellOf(pos.x, config.cell_size), CellOf(pos.y, config.cell_size),
           config.activation_radius)

\* C38: the teleport handler registers an id that is not registered
\* (participant_count grows by one) and only overwrites the cached position
\* of one that is; a registered id, however it was registered, contributes
\* its window to the next tick and appears in the tick's entity_transforms
\* and in snapshots.
C38_TeleportRegisters ==
    [][/\ (/\ handler.pc = "locked"
           /\ handler.subject = "world.command.teleport"
           /\ handler' = NoCommand)
          => /\ DOMAIN participant_positions'
                   = DOMAIN participant_positions \cup {handler.m.id}
             /\ participant_positions'[handler.m.id] = handler.m.position
             /\ \A k \in DOMAIN participant_positions \ {handler.m.id} :
                   participant_positions'[k] = participant_positions[k]
             /\ Cardinality(DOMAIN participant_positions')
                   = Cardinality(DOMAIN participant_positions)
                     + (IF handler.m.id \in DOMAIN participant_positions
                        THEN 0 ELSE 1)
             /\ UNCHANGED <<active_cells, terrain_bodies, tick_count>>
             /\ response' = Success(handler.command_id, JsonNull)
       /\ tick_calls' = tick_calls + 1
          => \A id \in DOMAIN participant_positions' :
                /\ WindowOf(participant_positions'[id]) \subseteq last'.desired
                /\ last'.ok =>
                      /\ WindowOf(participant_positions'[id]) \subseteq active_cells'
                      /\ EntityTransform(id, participant_positions'[id])
                            \in BagToSet(last'.entity_transforms)
       /\ last'.op = "snapshot"
          => \A id \in DOMAIN participant_positions' :
                EntitySpawned(id, participant_positions'[id])
                    \in BagToSet(last'.snapshot.entities)]_vars

\* The teleport of alice was the last command answered; the tick after it
\* activated the cell of the teleport position and returned her transform.
C38_Witness ==
    /\ response = Success("c3", JsonNull)
    /\ participant_positions = [id \in {"alice"} |-> Vec3(-3, 1, 7)]
    /\ last.op = "tick"
    /\ last.ok
    /\ last.tick = 1
    /\ active_cells = {CellCoord(-2, 0, 0)}
    /\ BagToSet(last.entity_transforms) = {EntityTransform("alice", Vec3(-3, 1, 7))}

\* The publication of an intent is on the wire.
IntentPublished(intent) ==
    \E i \in 1..Len(wire) :
        wire[i] = Pub(IntentToBus(ClientId, intent).subject,
                      IntentToBus(ClientId, intent).payload, TRUE)

\* C39: every intent accepted into the native bridge's intent channel is
\* eventually taken out of it and published on its mapped subject, whatever
\* the schedule of the inbound bus messages, messages that keep arriving less
\* than 8 ms apart included.  It is asked only of a bridge task that lives on:
\* an intent left in the channel of a task that has ended is not counted.
C39_AcceptedIntentsArePublished ==
    \A intent \in Intents \cup {DisconnectIntent} :
        (mirror_kind = "native" /\ intent_queue # <<>>
            /\ Head(intent_queue) = intent)
          ~> \/ intent_queue = <<>> /\ IntentPublished(intent)
             \/ bridge_pc = "exited"

\* t waits for a lock that u holds (u may be t itself).
WaitsFor(t, u) ==
    \/ task[t].pc = "lock" /\ service_mutex = u
    \/ /\ task[t].pc = "wait"
       /\ u \in (IF Head(task[t].todo).mode = "write"
                 THEN GuardHolders(registry_lock)
                 ELSE GuardHolders(registry_lock) \ registry_lock.readers)

\* The tasks reached from those of `from` along WaitsFor.
RECURSIVE WaitedFor(_, _)
WaitedFor(from, n) ==
    IF n = 0 THEN from
    ELSE WaitedFor(from \cup {u \in Tasks : \E t \in from : WaitsFor(t, u)}, n - 1)

\* No task waits, directly or through others, for a lock it holds itself.
NoCyclicWait ==
    \A t \in Tasks :
        t \notin WaitedFor({u \in Tasks : WaitsFor(t, u)}, Cardinality(Tasks))

\* tick() asks for a guard of the registry only under the guard of the
\* service and when it holds no guard of the registry; a task of the bus
\* agent that holds a guard of the registry holds the service; handlers never
\* ask for the registry.
LockDiscipline ==
    /\ task["tick"].pc \in {"wait", "registry"} => service_mutex = "tick"
    /\ task["tick"].pc = "wait" => "tick" \notin GuardHolders(registry_lock)
    /\ "tick" \in GuardHolders(registry_lock) => task["tick"].pc = "registry"
    /\ task["handler"].pc \in {"idle", "lock", "service"}
    /\ "handler" \notin GuardHolders(registry_lock)

\* C40: the server is deadlock-free and every tick() call terminates: tick()
\* takes the physics lock only while it holds the engine lock, never while it
\* already holds the physics lock, each guard being released before the next
\* is taken; handlers take only the engine lock; no cyclic wait exists among
\* the tick task, the handlers and the other users of the physics lock; and
\* every call that has started comes to its end.
C40_NoDeadlockAndTickTerminates ==
    /\ [](LockDiscipline /\ NoCyclicWait)
    /\ \A t \in {"tick", "handler"} :
          (task[t].pc # "idle") ~> (task[t].pc = "idle")

\* tick() holds the write guard of the second activation, with the sync,
\* a deactivation and the first activation behind it, while a handler waits
\* for the service and the two other users wait for the registry.
C40_Witness ==
    /\ service_mutex = "tick"
    /\ task["tick"].pc = "registry"
    /\ registry_lock = [writer |-> "tick", readers |-> {}]
    /\ task["tick"].todo = ActivateSections
    /\ task["handler"].pc = "lock"
    /\ task["stepper"].pc = "wait"
    /\ task["reader"].pc = "wait"

====
